---- MODULE Spec2Model ----
(***************************************************************************)
(* Spring Sparrow Financial Advisor: the booking form (BookingForm.jsx),   *)
(* its net-income calculator, and the store call it makes.                 *)
(*                                                                         *)
(* Representation.                                                         *)
(*  - A form field holds text.  Text is a sequence of one-character        *)
(*    strings, so that parseFloat, parseInt and the Date constructor are   *)
(*    modelled by what they do to the characters.                          *)
(*  - A JavaScript number is a record [nan, num, den]: NaN, or the exact   *)
(*    rational num/den in lowest terms.  Money is counted in cents (the    *)
(*    number inputs step by 0.01), time in minutes.  Rounding of IEEE      *)
(*    doubles is not modelled: arithmetic is exact.                        *)
(*                                                                         *)
(* Specifications.                                                         *)
(*  - Spec: one booking form, event by event.                              *)
(*  - DashboardSpec: App with its fetch and the form, filled in at once.   *)
(*  - CancelSpec: DashboardSpec with the form's Cancel and close buttons.  *)
(*  - BreakdownSpec: DashboardSpec with the breakdown modal; a render of   *)
(*    App may find that the month has changed.                             *)
(*  - TestCardSpec: TestButton with sign-in, sample booking and reset.     *)
(*  - DemoSpec: TestButton 2.1.0 with the demo data, for one guest.        *)
(*  - AccountSpec: App, the form of the first unit, and TestButton's       *)
(*    sign-in and sample booking.                                          *)
(*                                                                         *)
(* Restrictions.                                                           *)
(*  - The month changes under an open page only in BreakdownSpec, and      *)
(*    there only at a render caused by setShowBreakdown.                   *)
(*  - Sign-in with email and password is left out; Google sign-in stands   *)
(*    for both.                                                            *)
(*  - While a window.confirm dialog is open, no callback of the page       *)
(*    runs and the store answers no call.                                  *)
(***************************************************************************)
EXTENDS Integers, Sequences, FiniteSets, TLC

\* ------------------------------------------------------------------------
\* Bounds of the model
\* ------------------------------------------------------------------------

\* number of user events (field events, type toggles, submits) on one form
MaxEvents == 5

\* number of addBooking calls made in one run
MaxCalls == 2

\* number of store calls of the test card that await an answer at once
MaxPending == 1

\* ------------------------------------------------------------------------
\* Program constants
\* ------------------------------------------------------------------------

\* step="0.01" of the money inputs: amounts are whole cents
Cents == 100

\* 1000 * 60 * 60 * 24 milliseconds, held in minutes
MinutesPerDay == 1440

\* the fixed 30-day month of the MTR proration
DaysPerMonth == 30

\* ------------------------------------------------------------------------
\* JavaScript numbers
\* ------------------------------------------------------------------------

Abs(n) == IF n < 0 THEN -n ELSE n

RECURSIVE Gcd(_, _)
Gcd(a, b) == IF b = 0 THEN a ELSE Gcd(b, a % b)

NaN == [nan |-> TRUE, num |-> 0, den |-> 1]

\* the rational n/d (d > 0) in lowest terms
Rat(n, d) ==
  LET g == Gcd(Abs(n), d)
  IN  [nan |-> FALSE, num |-> n \div g, den |-> d \div g]

Num(n) == Rat(n, 1)

Plus(a, b) ==
  IF a.nan \/ b.nan THEN NaN
  ELSE Rat(a.num * b.den + b.num * a.den, a.den * b.den)

Minus(a, b) ==
  IF a.nan \/ b.nan THEN NaN
  ELSE Rat(a.num * b.den - b.num * a.den, a.den * b.den)

Times(a, b) ==
  IF a.nan \/ b.nan THEN NaN
  ELSE Rat(a.num * b.num, a.den * b.den)

\* a / k for a positive integer constant k
Over(a, k) ==
  IF a.nan THEN NaN ELSE Rat(a.num, a.den * k)

\* Math.ceil
Ceil(a) ==
  IF a.nan THEN NaN ELSE Num(-((-a.num) \div a.den))

\* Math.floor
Floor(a) ==
  IF a.nan THEN NaN ELSE Num(a.num \div a.den)

\* a % k of JavaScript for an integer a: the sign follows the dividend
JsRem(a, k) ==
  IF a.nan THEN NaN
  ELSE IF a.num >= 0 THEN Num(a.num % k) ELSE Num(-((-a.num) % k))

\* a variant without the || 0
OrNothing(a) == a

\* x || 0 : NaN and 0 are falsy
OrZero(a) == IF a.nan \/ a.num = 0 THEN Num(0) ELSE a

\* a > b of JavaScript: false when either side is NaN
Gt(a, b) == ~a.nan /\ ~b.nan /\ a.num * b.den > b.num * a.den

\* a !== b of JavaScript
Neq(a, b) == a.nan \/ b.nan \/ a # b

\* Number.isFinite
IsFinite(a) == ~a.nan

\* ------------------------------------------------------------------------
\* Text
\* ------------------------------------------------------------------------

DigitChars == <<"0", "1", "2", "3", "4", "5", "6", "7", "8", "9">>

IsDigit(c) == \E i \in 1..10 : DigitChars[i] = c

DigitVal(c) == (CHOOSE i \in 1..10 : DigitChars[i] = c) - 1

\* the text from position i on
From(s, i) == IF i > Len(s) THEN <<>> ELSE SubSeq(s, i, Len(s))

\* number of leading digits of s
RECURSIVE DigitRun(_)
DigitRun(s) ==
  IF s # <<>> /\ IsDigit(Head(s)) THEN 1 + DigitRun(Tail(s)) ELSE 0

\* value of a text of digits
RECURSIVE DigitsVal(_)
DigitsVal(s) ==
  IF s = <<>> THEN 0
  ELSE 10 * DigitsVal(SubSeq(s, 1, Len(s) - 1)) + DigitVal(s[Len(s)])

\* leading white space is skipped by parseFloat and parseInt
RECURSIVE TrimLeft(_)
TrimLeft(s) ==
  IF s # <<>> /\ Head(s) = " " THEN TrimLeft(Tail(s)) ELSE s

\* String(n) for an integer
RECURSIVE NatText(_)
NatText(n) ==
  IF n < 10 THEN <<DigitChars[n + 1]>>
  ELSE NatText(n \div 10) \o <<DigitChars[(n % 10) + 1]>>

\* `${x}` in a template literal, for an integer-valued number or NaN
ToText(a) ==
  IF a.nan THEN <<"NaN">>
  ELSE IF a.num < 0 THEN <<"-">> \o NatText(-a.num)
  ELSE NatText(a.num)

\* ------------------------------------------------------------------------
\* parseFloat, parseInt, new Date
\* ------------------------------------------------------------------------

RECURSIVE Pow10(_)
Pow10(k) == IF k = 0 THEN 1 ELSE 10 * Pow10(k - 1)

\* an optional sign, then the rest of the text
SignOf(t) == IF t # <<>> /\ Head(t) = "-" THEN -1 ELSE 1
Unsigned(t) == IF t # <<>> /\ Head(t) \in {"-", "+"} THEN Tail(t) ELSE t

\* parseFloat(s) of an amount of money, in cents: the longest prefix that is
\* a decimal literal (white space, sign, digits, point, digits); NaN when
\* there is none.  Whatever follows the literal is ignored.  Exponents and
\* "Infinity" are not modelled.
parseFloat(s) ==
  LET t  == Unsigned(TrimLeft(s))
      i  == DigitRun(t)
      u  == From(t, i + 1)
      f  == IF u # <<>> /\ Head(u) = "." THEN DigitRun(Tail(u)) ELSE 0
      ip == DigitsVal(SubSeq(t, 1, i))
      fp == IF f = 0 THEN 0 ELSE DigitsVal(SubSeq(u, 2, f + 1))
  IN  IF i = 0 /\ f = 0 THEN NaN
      ELSE Rat(SignOf(TrimLeft(s)) * (ip * Pow10(f) + fp) * Cents, Pow10(f))

\* parseInt(s): white space, sign, decimal digits; NaN when there is no
\* digit.  The 0x prefix is not modelled.
parseInt(s) ==
  LET t == Unsigned(TrimLeft(s))
      i == DigitRun(t)
  IN  IF i = 0 THEN NaN
      ELSE Num(SignOf(TrimLeft(s)) * DigitsVal(SubSeq(t, 1, i)))

IsLeap(y) == (y % 4 = 0 /\ y % 100 # 0) \/ y % 400 = 0

DaysInMonth(y, m) ==
  IF m = 2 THEN (IF IsLeap(y) THEN 29 ELSE 28)
  ELSE IF m \in {4, 6, 9, 11} THEN 30 ELSE 31

\* days from 1970-01-01 to the civil date y-m-d
DaysFromCivil(y, m, d) ==
  LET yy  == IF m <= 2 THEN y - 1 ELSE y
      era == yy \div 400
      yoe == yy - era * 400
      mp  == IF m > 2 THEN m - 3 ELSE m + 9
      doy == (153 * mp + 2) \div 5 + d - 1
      doe == yoe * 365 + yoe \div 4 - yoe \div 100 + doy
  IN  era * 146097 + doe - 719468

AllDigits(s) == \A i \in 1..Len(s) : IsDigit(s[i])

\* the text is YYYY-MM-DD with a month and a day that exist
IsIsoDate(s) ==
  /\ Len(s) = 10
  /\ s[5] = "-" /\ s[8] = "-"
  /\ AllDigits(SubSeq(s, 1, 4)) /\ AllDigits(SubSeq(s, 6, 7))
  /\ AllDigits(SubSeq(s, 9, 10))
  /\ LET y == DigitsVal(SubSeq(s, 1, 4))
         m == DigitsVal(SubSeq(s, 6, 7))
         d == DigitsVal(SubSeq(s, 9, 10))
     IN  m \in 1..12 /\ d \in 1..DaysInMonth(y, m)

\* the text is THH:mmZ with an hour and a minute that exist
IsIsoTime(s) ==
  /\ Len(s) = 7
  /\ s[1] = "T" /\ s[4] = ":" /\ s[7] = "Z"
  /\ AllDigits(SubSeq(s, 2, 3)) /\ AllDigits(SubSeq(s, 5, 6))
  /\ DigitsVal(SubSeq(s, 2, 3)) \in 0..23
  /\ DigitsVal(SubSeq(s, 5, 6)) \in 0..59

\* new Date(s).getTime(), in minutes: a date-only text is UTC midnight, a
\* date-time text ending in Z is UTC; any other text is an Invalid Date,
\* whose time value is NaN.
Date(s) ==
  LET day == DaysFromCivil(DigitsVal(SubSeq(s, 1, 4)),
                           DigitsVal(SubSeq(s, 6, 7)),
                           DigitsVal(SubSeq(s, 9, 10)))
  IN  IF IsIsoDate(s) THEN Num(day * MinutesPerDay)
      ELSE IF Len(s) = 17 /\ IsIsoDate(SubSeq(s, 1, 10))
                /\ IsIsoTime(SubSeq(s, 11, 17))
      THEN Num(day * MinutesPerDay + DigitsVal(SubSeq(s, 12, 13)) * 60
                 + DigitsVal(SubSeq(s, 15, 16)))
      ELSE NaN

\* ------------------------------------------------------------------------
\* The form's inputs
\* ------------------------------------------------------------------------

Empty == <<>>
Junk == <<"a", "b", "c">>

D0315 == <<"2", "0", "2", "6", "-", "0", "3", "-", "1", "5">>
D0320 == <<"2", "0", "2", "6", "-", "0", "3", "-", "2", "0">>
D0414 == <<"2", "0", "2", "6", "-", "0", "4", "-", "1", "4">>
D0519 == <<"2", "0", "2", "6", "-", "0", "5", "-", "1", "9">>
Noon0317 ==
  <<"2", "0", "2", "6", "-", "0", "3", "-", "1", "7",
    "T", "1", "2", ":", "0", "0", "Z">>

T50 == <<"5", "0">>
T80 == <<"8", "0">>
T150 == <<"1", "5", "0">>
T250 == <<"2", "5", "0">>
T350 == <<"3", "5", "0">>
T450 == <<"4", "5", "0">>
T500 == <<"5", "0", "0">>
T2000 == <<"2", "0", "0", "0">>
T6750 == <<"6", "7", ".", "5", "0">>

\* units the form is opened on and the unit select offers (two of the
\* three options)
UnitIds == {"robins-roost", "doves-den"}

\* platforms the platform select offers (two of the four options)
Platforms == {"Airbnb", "Vrbo"}

BookingTypes == {"STR", "MTR"}

\* the inputs whose value is a text the calculator parses
TextFields ==
  {"checkIn", "checkOut", "grossPayout", "platformFee", "cleaningCost",
   "baseMonthlyRent", "moveOutCleaning", "securityDeposit",
   "damageProtection", "petCount", "petFeePerMonth", "petDeposit"}

\* the money inputs the calculator reads
MoneyFields ==
  {"grossPayout", "platformFee", "cleaningCost", "baseMonthlyRent",
   "moveOutCleaning", "damageProtection", "petFeePerMonth", "petDeposit"}

SelectFields == {"unitId", "platform"}

CheckboxFields == {"hasDamageProtection", "hasPets"}

\* the values an input event can carry for a field
FieldValues(name) ==
  CASE name = "unitId" -> UnitIds
    [] name = "platform" -> Platforms
    [] name = "checkIn" -> {Empty, D0320, Noon0317, Junk}
    [] name = "checkOut" -> {Empty, D0315, D0414, D0519}
    [] name = "grossPayout" -> {Empty, Junk, T450}
    [] name = "platformFee" -> {Empty, Junk, T6750, T500}
    [] name = "cleaningCost" -> {Empty, Junk, T150}
    [] name = "baseMonthlyRent" -> {Empty, Junk, T2000}
    [] name = "moveOutCleaning" -> {Empty, Junk, T350}
    [] name = "securityDeposit" -> {Empty, T500}
    [] name = "damageProtection" -> {Empty, Junk, T80}
    [] name = "petCount" -> {Empty, <<"1">>, <<"2">>}
    [] name = "petFeePerMonth" -> {Empty, Junk, T50}
    [] name = "petDeposit" -> {Empty, Junk, T250}
    [] name \in CheckboxFields -> BOOLEAN

\* useState of formData for the unit the form was opened on
InitialFormData(unitId) ==
  [unitId |-> unitId,
   checkIn |-> Empty,
   checkOut |-> Empty,
   platform |-> "Airbnb",
   grossPayout |-> Empty,
   platformFee |-> Empty,
   cleaningCost |-> T150,
   baseMonthlyRent |-> Empty,
   moveOutCleaning |-> T350,
   securityDeposit |-> Empty,
   damageProtection |-> T80,
   hasDamageProtection |-> TRUE,
   hasPets |-> FALSE,
   petCount |-> <<"1">>,
   petFeePerMonth |-> Empty,
   petDeposit |-> T250]

\* useState of calculated
InitialCalculated ==
  [nights |-> Num(0), months |-> Num(0), days |-> Num(0),
   displayText |-> Empty, netIncome |-> Num(0)]

\* the hardcoded userId of the form
FormUserId == "B52ye9yyQ0QINoHdEe4nH5niDef2"

\* ------------------------------------------------------------------------
\* The calculator
\* ------------------------------------------------------------------------

\* `s` of a plural: n !== 1
Plural(n) == IF Neq(n, Num(1)) THEN <<"s">> ELSE <<>>

\* a variant with && in place of ||
DatesMissingBoth(fd) == fd.checkIn = Empty /\ fd.checkOut = Empty

\* !checkIn || !checkOut
DatesMissing(fd) == fd.checkIn = Empty \/ fd.checkOut = Empty

\* a variant with Math.floor in place of Math.ceil
DiffDaysFloor(fd) ==
  Floor(Over(Minus(Date(fd.checkOut), Date(fd.checkIn)), MinutesPerDay))

\* Math.ceil(diffTime / (1000 * 60 * 60 * 24))
DiffDays(fd) ==
  Ceil(Over(Minus(Date(fd.checkOut), Date(fd.checkIn)), MinutesPerDay))

\* a variant that prorates by whole months only
TotalMonthsFloored(diffDays) == Floor(Over(diffDays, DaysPerMonth))

\* diffDays / 30, the prorated month count
TotalMonths(diffDays) == Over(diffDays, DaysPerMonth)

\* parseFloat(text) || 0
Amount(text) == OrZero(parseFloat(text))

\* parseInt(text) || 0
Count(text) == OrZero(parseInt(text))

\* a variant that forgets the cleaning cost
StrNetIncomeNoCleaning(fd) ==
  Minus(Amount(fd.grossPayout), Amount(fd.platformFee))

\* the net income of an STR booking
StrNetIncome(fd) ==
  Minus(Minus(Amount(fd.grossPayout), Amount(fd.platformFee)),
        Amount(fd.cleaningCost))

\* the duration label of an MTR booking
MtrDisplayText(months, remainingDays) ==
  IF Gt(months, Num(0)) /\ Gt(remainingDays, Num(0))
  THEN ToText(months) \o <<" month">> \o Plural(months) \o <<", ">>
         \o ToText(remainingDays) \o <<" day">> \o Plural(remainingDays)
  ELSE IF Gt(months, Num(0))
  THEN ToText(months) \o <<" month">> \o Plural(months)
  ELSE ToText(remainingDays) \o <<" day">> \o Plural(remainingDays)

\* a variant that charges the pet fee once instead of per month
MtrRevenueFlatPetFee(fd, totalMonths) ==
  LET rent == Times(Amount(fd.baseMonthlyRent), totalMonths)
      withProtection ==
        IF fd.hasDamageProtection
        THEN Plus(rent, Times(Amount(fd.damageProtection), totalMonths))
        ELSE rent
  IN  IF fd.hasPets
      THEN Plus(withProtection,
                Plus(Times(Amount(fd.petFeePerMonth), Count(fd.petCount)),
                     Amount(fd.petDeposit)))
      ELSE withProtection

\* a variant that counts the security deposit as revenue
MtrRevenueWithDeposit(fd, totalMonths) ==
  LET rent == Plus(Times(Amount(fd.baseMonthlyRent), totalMonths),
                   Amount(fd.securityDeposit))
      withProtection ==
        IF fd.hasDamageProtection
        THEN Plus(rent, Times(Amount(fd.damageProtection), totalMonths))
        ELSE rent
  IN  IF fd.hasPets
      THEN Plus(withProtection,
                Plus(Times(Times(Amount(fd.petFeePerMonth),
                                 Count(fd.petCount)),
                           totalMonths),
                     Amount(fd.petDeposit)))
      ELSE withProtection

\* totalRevenue of an MTR booking
MtrRevenue(fd, totalMonths) ==
  LET rent == Times(Amount(fd.baseMonthlyRent), totalMonths)
      withProtection ==
        IF fd.hasDamageProtection
        THEN Plus(rent, Times(Amount(fd.damageProtection), totalMonths))
        ELSE rent
  IN  IF fd.hasPets
      THEN Plus(withProtection,
                Plus(Times(Times(Amount(fd.petFeePerMonth),
                                 Count(fd.petCount)),
                           totalMonths),
                     Amount(fd.petDeposit)))
      ELSE withProtection

\* the net income of an MTR booking
MtrNetIncome(fd, diffDays) ==
  Minus(Minus(MtrRevenue(fd, TotalMonths(diffDays)),
              Amount(fd.platformFee)),
        Amount(fd.moveOutCleaning))

\* the value calculateBooking passes to setCalculated
calculateBooking(fd, type) ==
  LET diffDays == DiffDays(fd)
  IN  IF DatesMissing(fd)
      THEN [nights |-> Num(0), months |-> Num(0), days |-> Num(0),
            displayText |-> Empty, netIncome |-> Num(0)]
      ELSE IF type = "STR"
      THEN [nights |-> diffDays,
            months |-> Num(0),
            days |-> diffDays,
            displayText |-> ToText(diffDays) \o <<" night">>
                              \o Plural(diffDays),
            netIncome |-> StrNetIncome(fd)]
      ELSE [nights |-> Num(0),
            months |-> Floor(TotalMonths(diffDays)),
            days |-> diffDays,
            displayText |->
              MtrDisplayText(Floor(Over(diffDays, DaysPerMonth)),
                             JsRem(diffDays, DaysPerMonth)),
            netIncome |-> MtrNetIncome(fd, diffDays)]

\* ------------------------------------------------------------------------
\* State
\* ------------------------------------------------------------------------

VARIABLES
  mounted,      \* the form is on screen
  bookingType,  \* useState('STR')
  formData,     \* useState({...})
  calculated,   \* useState({nights, months, days, displayText, netIncome})
  loading,      \* useState(false)
  error,        \* useState('')
  inflight,     \* addBooking calls awaiting the store's answer
  calls,        \* every (userId, bookingData) passed to addBooking so far
  store,        \* users/{userId}/bookings, per account
  nextId,       \* the next document id the store generates
  events,       \* user events handled so far
  user,         \* TestButton: the signed-in user's uid, "" when signed out
  message,      \* TestButton: useState('')
  testLoading,  \* TestButton: useState(false)
  timer,        \* the reload that handleResetData schedules is due
  pending,      \* store calls of the dashboard and the test card awaiting
                \* the store's answer
  bookings,     \* App: useState([])
  appLoading,   \* App: useState(true)
  appError,     \* App: useState(null), "" for null
  showBreakdown, \* App: useState(false)
  currentMonth,  \* App: getCurrentMonth() as of the latest render
  asking,        \* TestButton: the handler that called window.confirm,
                 \* whether its dialog is still open, and the answer
  adding         \* TestButton: the position in mockBookings of the booking
                 \* that a running handleLoadMockData is adding, 0 when
                 \* none runs

\* the state of the booking form and of the store
formVars ==
  <<mounted, bookingType, formData, calculated, loading, error, inflight,
    calls, store, nextId, events>>

\* the state of the dashboard page and its test card
pageVars ==
  <<user, message, testLoading, timer, pending, bookings, appLoading,
    appError, showBreakdown, currentMonth, asking, adding>>

\* the breakdown modal, the month of the dashboard, the dialog's answer and
\* the progress of a demo load
dialogVars == <<showBreakdown, currentMonth, asking, adding>>

vars ==
  <<mounted, bookingType, formData, calculated, loading, error, inflight,
    calls, store, nextId, events, user, message, testLoading, timer,
    pending, bookings, appLoading, appError, showBreakdown, currentMonth,
    asking, adding>>

\* a second account that can sign in on the test card
GuestUserId == "guest-uid"

Accounts == {FormUserId, GuestUserId}

\* what new Date() can read when a booking is saved: year and getMonth()
Clock == {[year |-> 2026, month |-> 2], [year |-> 2026, month |-> 10]}

\* no handler is at a window.confirm
NoDialog == [handler |-> "", open |-> FALSE, confirmed |-> FALSE]

\* the dialog of a handler is open, and the page's scripts wait for it
Asking(handler) == [handler |-> handler, open |-> TRUE, confirmed |-> FALSE]

\* window.confirm has returned the answer to the handler
Answered(handler, confirmed) ==
  [handler |-> handler, open |-> FALSE, confirmed |-> confirmed]

\* err.message of a rejected store call
StoreErrors == {"permission-denied"}

Init ==
  /\ mounted = TRUE
  /\ bookingType = "STR"
  /\ \E unitId \in UnitIds : formData = InitialFormData(unitId)
  /\ calculated = InitialCalculated
  /\ loading = FALSE
  /\ error = ""
  /\ inflight = <<>>
  /\ calls = <<>>
  /\ store = [a \in Accounts |-> <<>>]
  /\ nextId = 1
  /\ events = 0
  /\ user = ""
  /\ message = <<>>
  /\ testLoading = FALSE
  /\ timer = FALSE
  /\ pending = <<>>
  /\ bookings = <<>>
  /\ appLoading = FALSE
  /\ appError = ""
  /\ showBreakdown = FALSE
  /\ currentMonth = <<"2", "0", "2", "6", "-", "0", "3">>
  /\ asking = NoDialog
  /\ adding = 0

\* ------------------------------------------------------------------------
\* Input events
\* ------------------------------------------------------------------------

\* the input named `name` is rendered for this booking type and these toggles
Rendered(name, type, fd) ==
  CASE name \in {"unitId", "checkIn", "checkOut", "platform", "platformFee"}
         -> TRUE
    [] name \in {"grossPayout", "cleaningCost"} -> type = "STR"
    [] name \in {"baseMonthlyRent", "moveOutCleaning", "securityDeposit",
                 "hasDamageProtection", "hasPets"} -> type = "MTR"
    [] name = "damageProtection" -> type = "MTR" /\ fd.hasDamageProtection
    [] name \in {"petCount", "petFeePerMonth", "petDeposit"}
         -> type = "MTR" /\ fd.hasPets

\* a variant whose recalculation reads the form as it was before the change
handleChangeStale(name, value) ==
  /\ mounted
  /\ events < MaxEvents
  /\ Rendered(name, bookingType, formData)
  /\ value # formData[name]
  /\ formData' = [formData EXCEPT ![name] = value]
  /\ calculated' = calculateBooking(formData, bookingType)
  /\ events' = events + 1
  /\ UNCHANGED <<mounted, bookingType, loading, error, inflight, calls,
                 store, nextId>>
  /\ UNCHANGED pageVars

\* handleChange, and the effect that recalculates after the state change
handleChange(name, value) ==
  /\ mounted
  /\ events < MaxEvents
  /\ Rendered(name, bookingType, formData)
  /\ value # formData[name]
  /\ formData' = [formData EXCEPT ![name] = value]
  /\ calculated' = calculateBooking(formData', bookingType)
  /\ events' = events + 1
  /\ UNCHANGED <<mounted, bookingType, loading, error, inflight, calls,
                 store, nextId>>
  /\ UNCHANGED pageVars

\* the STR / MTR buttons, and the effect that recalculates
setBookingType(type) ==
  /\ mounted
  /\ events < MaxEvents
  /\ type # bookingType
  /\ bookingType' = type
  /\ calculated' = calculateBooking(formData, type)
  /\ events' = events + 1
  /\ UNCHANGED <<mounted, formData, loading, error, inflight, calls, store,
                 nextId>>
  /\ UNCHANGED pageVars

\* the Cancel and close buttons: the dashboard unmounts the form, and the
\* state of an unmounted component is discarded
onClose ==
  /\ mounted
  /\ mounted' = FALSE
  /\ bookingType' = "STR"
  /\ formData' = InitialFormData("robins-roost")
  /\ calculated' = InitialCalculated
  /\ loading' = FALSE
  /\ error' = ""
  /\ events' = 0
  /\ UNCHANGED <<inflight, calls, store, nextId>>
  /\ UNCHANGED pageVars

\* ------------------------------------------------------------------------
\* Saving
\* ------------------------------------------------------------------------

\* a variant that does not pad
PadStartNone(t) == t

\* String(n).padStart(2, '0')
PadStart2(t) == IF Len(t) < 2 THEN <<"0">> \o t ELSE t

\* getCurrentMonth at the clock reading now
getCurrentMonth(now) ==
  NatText(now.year) \o <<"-">> \o PadStart2(NatText(now.month + 1))

\* the browser submits the form only when every rendered input is valid:
\* the required ones are filled and petCount is not below its min
FormValid(type, fd) ==
  /\ \A name \in {"checkIn", "checkOut"} : fd[name] # Empty
  /\ type = "STR" =>
       \A name \in {"grossPayout", "platformFee", "cleaningCost"} :
         fd[name] # Empty
  /\ type = "MTR" =>
       \A name \in {"baseMonthlyRent", "platformFee", "moveOutCleaning"} :
         fd[name] # Empty
  /\ Rendered("petCount", type, fd) =>
       LET n == parseInt(fd.petCount) IN n.nan \/ n.num >= 1

\* the fields every booking record carries
CommonData(type, fd, calc, month) ==
  [unitId |-> fd.unitId,
   type |-> type,
   checkIn |-> Date(fd.checkIn),
   checkOut |-> Date(fd.checkOut),
   nights |-> IF type = "STR" THEN calc.nights ELSE calc.days,
   grossPayout |-> Amount(fd.grossPayout),
   platform |-> fd.platform,
   platformFee |-> Amount(fd.platformFee),
   cleaningCost |-> IF type = "STR"
                    THEN Amount(fd.cleaningCost)
                    ELSE Amount(fd.moveOutCleaning),
   netIncome |-> calc.netIncome,
   month |-> month]

\* a variant that stores the amounts whatever the toggles say
MtrDataUnguarded(fd) ==
  [baseMonthlyRent |-> Amount(fd.baseMonthlyRent),
   securityDeposit |-> Amount(fd.securityDeposit),
   damageProtection |-> Amount(fd.damageProtection),
   hasPets |-> fd.hasPets,
   petCount |-> Count(fd.petCount),
   petFeePerMonth |-> Amount(fd.petFeePerMonth),
   petDeposit |-> Amount(fd.petDeposit)]

\* the fields an MTR booking record adds
MtrData(fd) ==
  [baseMonthlyRent |-> Amount(fd.baseMonthlyRent),
   securityDeposit |-> Amount(fd.securityDeposit),
   damageProtection |-> IF fd.hasDamageProtection
                        THEN Amount(fd.damageProtection)
                        ELSE Num(0),
   hasPets |-> fd.hasPets,
   petCount |-> IF fd.hasPets THEN Count(fd.petCount)
                ELSE Num(0),
   petFeePerMonth |-> IF fd.hasPets
                      THEN Amount(fd.petFeePerMonth)
                      ELSE Num(0),
   petDeposit |-> IF fd.hasPets THEN Amount(fd.petDeposit)
                  ELSE Num(0)]

\* bookingData of handleSubmit
BookingData(type, fd, calc, month) ==
  IF type = "MTR"
  THEN CommonData(type, fd, calc, month) @@ MtrData(fd)
  ELSE CommonData(type, fd, calc, month)

\* handleSubmit up to the await: the record is built and handed to addBooking
handleSubmit ==
  /\ mounted
  /\ ~loading
  /\ FormValid(bookingType, formData)
  /\ events < MaxEvents
  /\ Len(calls) < MaxCalls
  /\ \E now \in Clock :
       LET call == [userId |-> FormUserId,
                    bookingData |-> BookingData(bookingType, formData,
                                                calculated,
                                                getCurrentMonth(now))]
       IN  /\ inflight' = Append(inflight, call)
           /\ calls' = Append(calls, call)
  /\ loading' = TRUE
  /\ error' = ""
  /\ events' = events + 1
  /\ UNCHANGED <<mounted, bookingType, formData, calculated, store, nextId>>
  /\ UNCHANGED pageVars

\* a store call of the dashboard or the test card: arg is the bookingData of
\* addBooking, the month of getBookingsByMonth, nothing for
\* deleteAllBookings; live says that the page that made the call is still
\* there to receive the answer
Call(op, userId, arg) ==
  [op |-> op, userId |-> userId, arg |-> arg, live |-> TRUE]

\* the writes among the calls, left without a page to answer to
Orphaned(calling) ==
  LET writes == SelectSeq(calling,
                          LAMBDA c : c.op # "getBookingsByMonth")
  IN  [i \in 1..Len(writes) |-> [writes[i] EXCEPT !.live = FALSE]]

\* the sequence without its i-th element
Without(seq, i) == SubSeq(seq, 1, i - 1) \o SubSeq(seq, i + 1, Len(seq))

\* a variant in which the dashboard asks for the bookings of the signed-in
\* user
PageLoadsSignedIn(calling, now) ==
  /\ bookings' = <<>>
  /\ appLoading' = TRUE
  /\ appError' = ""
  /\ message' = <<>>
  /\ testLoading' = FALSE
  /\ timer' = FALSE
  /\ user' = user
  /\ showBreakdown' = FALSE
  /\ currentMonth' = getCurrentMonth(now)
  /\ asking' = NoDialog
  /\ adding' = 0
  /\ pending' = Append(Orphaned(calling),
                       Call("getBookingsByMonth",
                            IF user = "" THEN FormUserId ELSE user,
                            getCurrentMonth(now)))

\* the page loads: App and TestButton start from their initial state, and
\* the effect of App asks the store for the current month's bookings
PageLoads(calling, now) ==
  /\ bookings' = <<>>
  /\ appLoading' = TRUE
  /\ appError' = ""
  /\ message' = <<>>
  /\ testLoading' = FALSE
  /\ timer' = FALSE
  /\ user' = user
  /\ showBreakdown' = FALSE
  /\ currentMonth' = getCurrentMonth(now)
  /\ asking' = NoDialog
  /\ adding' = 0
  /\ pending' = Append(Orphaned(calling),
                       Call("getBookingsByMonth", FormUserId,
                            getCurrentMonth(now)))

\* the calls of the form that await an answer, as calls without a page
FormCalls(calling) ==
  [i \in 1..Len(calling) |->
     Call("addBooking", calling[i].userId, calling[i].bookingData)]

\* the call at the head of inflight was made by the form that is on screen:
\* a form that was closed while its call was in flight is unmounted, and its
\* setError and setLoading change nothing
OwnCall == mounted /\ loading /\ Len(inflight) = 1

\* a variant that writes every booking to the account of the form
addBookingShared(st, id, userId, bookingData) ==
  [st EXCEPT ![FormUserId] = Append(@, [id |-> id] @@ bookingData)]

\* a variant that writes the booking twice
addBookingTwice(st, id, userId, bookingData) ==
  [st EXCEPT ![userId] =
     Append(Append(@, [id |-> id] @@ bookingData),
            [id |-> id] @@ bookingData)]

\* a variant that writes over the account's latest booking
addBookingOverwrite(st, id, userId, bookingData) ==
  [st EXCEPT ![userId] =
     IF @ = <<>> THEN <<[id |-> id] @@ bookingData>>
     ELSE [@ EXCEPT ![Len(@)] = [id |-> id] @@ bookingData]]

\* addBooking when addDoc succeeds: users/{userId}/bookings gains one
\* document, under the id the store generates
addBooking(st, id, userId, bookingData) ==
  [st EXCEPT ![userId] = Append(@, [id |-> id] @@ bookingData)]

\* addDoc succeeds: addBooking returns the new id, and handleSubmit goes on
\* to onSuccess (the dashboard closes the form and reloads the page) and
\* onClose; the form's state is discarded with it, and a later call of the
\* form is left without a page to answer to
addBookingResolve ==
  /\ inflight # <<>>
  /\ LET call == Head(inflight)
     IN  store' = addBooking(store, nextId, call.userId, call.bookingData)
  /\ nextId' = nextId + 1
  /\ inflight' = <<>>
  /\ mounted' = FALSE
  /\ bookingType' = "STR"
  /\ formData' = InitialFormData("robins-roost")
  /\ calculated' = InitialCalculated
  /\ loading' = FALSE
  /\ error' = ""
  /\ events' = 0
  /\ \E now \in Clock :
       PageLoads(pending \o FormCalls(Tail(inflight)), now)
  /\ UNCHANGED <<calls>>

\* a variant that calls addBooking again after a rejection
addBookingRejectRetry ==
  /\ inflight # <<>>
  /\ inflight' = Append(Tail(inflight), Head(inflight))
  /\ calls' = Append(calls, Head(inflight))
  /\ \E errMessage \in StoreErrors :
       error' = IF OwnCall THEN errMessage ELSE error
  /\ loading' = IF OwnCall THEN FALSE ELSE loading
  /\ UNCHANGED <<mounted, bookingType, formData, calculated, store, nextId,
                 events>>
  /\ UNCHANGED pageVars

\* addDoc is rejected: addBooking rethrows, and handleSubmit shows the message
addBookingReject ==
  /\ inflight # <<>>
  /\ inflight' = Tail(inflight)
  /\ \E errMessage \in StoreErrors :
       error' = IF OwnCall THEN errMessage ELSE error
  /\ loading' = IF OwnCall THEN FALSE ELSE loading
  /\ UNCHANGED <<mounted, bookingType, formData, calculated, calls, store,
                 nextId, events>>
  /\ UNCHANGED pageVars

\* ------------------------------------------------------------------------
\* The store's queries
\* ------------------------------------------------------------------------

\* orderBy('checkIn', 'desc'): a comes before b; documents with the same
\* checkIn are ordered by id, descending as well
Before(a, b) ==
  \/ Gt(a.checkIn, b.checkIn)
  \/ a.checkIn = b.checkIn /\ a.id > b.id

\* a variant that orders ascending
RECURSIVE OrderByCheckInAsc(_)
OrderByCheckInAsc(docs) ==
  IF docs = <<>> THEN <<>>
  ELSE LET rest == OrderByCheckInAsc(Tail(docs))
           doc == Head(docs)
           n == Cardinality({i \in 1..Len(rest) : Before(doc, rest[i])})
       IN  SubSeq(rest, 1, n) \o <<doc>> \o SubSeq(rest, n + 1, Len(rest))

\* the documents in the order of the query
RECURSIVE OrderByCheckInDesc(_)
OrderByCheckInDesc(docs) ==
  IF docs = <<>> THEN <<>>
  ELSE LET rest == OrderByCheckInDesc(Tail(docs))
           doc == Head(docs)
           n == Cardinality({i \in 1..Len(rest) : Before(rest[i], doc)})
       IN  SubSeq(rest, 1, n) \o <<doc>> \o SubSeq(rest, n + 1, Len(rest))

\* getBookingsByMonth when getDocs succeeds
getBookingsByMonth(st, userId, month) ==
  OrderByCheckInDesc(SelectSeq(st[userId], LAMBDA doc : doc.month = month))

\* deleteAllBookings when it succeeds: the count it returns and the store
\* it leaves
deleteAllBookings(st, userId) ==
  [count |-> Len(st[userId]),
   store |-> [st EXCEPT ![userId] = <<>>]]

\* ------------------------------------------------------------------------
\* The dashboard
\* ------------------------------------------------------------------------

\* the ids of the units the dashboard shows
ManagedUnits == <<"robins-roost", "doves-den", "stadium-district">>

\* a variant that adds up the gross payouts
RECURSIVE totalGross(_)
totalGross(bs) ==
  IF bs = <<>> THEN Num(0)
  ELSE Plus(totalGross(SubSeq(bs, 1, Len(bs) - 1)),
            bs[Len(bs)].grossPayout)

\* bookings.reduce((sum, booking) => sum + booking.netIncome, 0)
RECURSIVE totalIncome(_)
totalIncome(bs) ==
  IF bs = <<>> THEN Num(0)
  ELSE Plus(totalIncome(SubSeq(bs, 1, Len(bs) - 1)),
            bs[Len(bs)].netIncome)

\* the reduce that counts nights by unit: an absent, zero or NaN entry
\* restarts at 0
RECURSIVE unitNights(_)
unitNights(bs) ==
  IF bs = <<>> THEN <<>>
  ELSE LET acc == unitNights(SubSeq(bs, 1, Len(bs) - 1))
           booking == bs[Len(bs)]
           before == IF booking.unitId \in DOMAIN acc
                     THEN OrZero(acc[booking.unitId])
                     ELSE Num(0)
       IN  (booking.unitId :> Plus(before, booking.nights)) @@ acc

\* unitNights[id] || 0
NightsOf(bs, id) ==
  IF id \in DOMAIN unitNights(bs) THEN OrZero(unitNights(bs)[id])
  ELSE Num(0)

\* the nights and netIncome of the three unit cards
units(bs) ==
  [k \in 1..Len(ManagedUnits) |->
     [id |-> ManagedUnits[k],
      nights |-> NightsOf(bs, ManagedUnits[k]),
      netIncome |->
        totalIncome(SelectSeq(bs, LAMBDA b : b.unitId = ManagedUnits[k]))]]

\* what App renders: the loading view while loading, the error view when
\* an error is set, the metrics view otherwise
View ==
  IF appLoading THEN "loading"
  ELSE IF appError # "" THEN "error"
  ELSE "metrics"

\* the metrics view, with its unit cards and the test card, is rendered, and
\* no modal covers it
MetricsShown ==
  View = "metrics" /\ ~mounted /\ ~showBreakdown /\ asking = NoDialog

\* getDocs of the dashboard succeeds
fetchDataResolve(i) ==
  /\ i \in 1..Len(pending)
  /\ pending[i].op = "getBookingsByMonth"
  /\ bookings' = getBookingsByMonth(store, pending[i].userId, pending[i].arg)
  /\ appLoading' = FALSE
  /\ pending' = Without(pending, i)
  /\ UNCHANGED formVars
  /\ UNCHANGED <<user, message, testLoading, timer, appError>>
  /\ UNCHANGED dialogVars

\* a variant in which a rejected fetch leaves the loading flag set
fetchDataRejectStuck(i) ==
  /\ i \in 1..Len(pending)
  /\ pending[i].op = "getBookingsByMonth"
  /\ \E errMessage \in StoreErrors : appError' = errMessage
  /\ pending' = Without(pending, i)
  /\ UNCHANGED formVars
  /\ UNCHANGED <<user, message, testLoading, timer, bookings, appLoading>>
  /\ UNCHANGED dialogVars

\* getDocs of the dashboard is rejected
fetchDataReject(i) ==
  /\ i \in 1..Len(pending)
  /\ pending[i].op = "getBookingsByMonth"
  /\ \E errMessage \in StoreErrors : appError' = errMessage
  /\ appLoading' = FALSE
  /\ pending' = Without(pending, i)
  /\ UNCHANGED formVars
  /\ UNCHANGED <<user, message, testLoading, timer, bookings>>
  /\ UNCHANGED dialogVars

Next ==
  \/ \E name \in TextFields \cup SelectFields \cup CheckboxFields :
       \E value \in FieldValues(name) : handleChange(name, value)
  \/ \E type \in BookingTypes : setBookingType(type)
  \/ onClose
  \/ handleSubmit
  \/ addBookingResolve
  \/ addBookingReject
  \/ \E i \in 1..Len(pending) : fetchDataResolve(i)
  \/ \E i \in 1..Len(pending) : fetchDataReject(i)

Spec == Init /\ [][Next]_vars

\* ------------------------------------------------------------------------
\* The test card
\* ------------------------------------------------------------------------

D0318 == <<"2", "0", "2", "6", "-", "0", "3", "-", "1", "8">>

\* '2026-03'
Month202603 == <<"2", "0", "2", "6", "-", "0", "3">>

\* testBooking of handleAddTestBooking
testBooking ==
  [unitId |-> "robins-roost",
   type |-> "STR",
   checkIn |-> Date(D0315),
   checkOut |-> Date(D0318),
   nights |-> Num(3),
   grossPayout |-> Num(450 * Cents),
   platform |-> "Airbnb",
   platformFee |-> Rat(6750 * Cents, 100),
   cleaningCost |-> Num(150 * Cents),
   netIncome |-> Rat(23250 * Cents, 100),
   month |-> Month202603]

\* err.message of a rejected sign-in
AuthErrors == {"auth/popup-closed-by-user"}

\* Sign in with Google, accepted: onAuthStateChanged sets the user
handleGoogleSignIn(uid) ==
  /\ MetricsShown
  /\ user = ""
  /\ ~testLoading
  /\ user' = uid
  /\ message' = <<"Signed in with Google">>
  /\ testLoading' = FALSE
  /\ UNCHANGED formVars
  /\ UNCHANGED <<timer, pending, bookings, appLoading, appError>>
  /\ UNCHANGED dialogVars

\* Sign in with Google, rejected
handleGoogleSignInFailed ==
  /\ MetricsShown
  /\ user = ""
  /\ ~testLoading
  /\ \E errMessage \in AuthErrors : message' = <<errMessage>>
  /\ testLoading' = FALSE
  /\ UNCHANGED formVars
  /\ UNCHANGED <<user, timer, pending, bookings, appLoading, appError>>
  /\ UNCHANGED dialogVars

\* Sign out: onAuthStateChanged clears the user and the message
handleSignOut ==
  /\ MetricsShown
  /\ user # ""
  /\ user' = ""
  /\ message' = <<>>
  /\ UNCHANGED formVars
  /\ UNCHANGED <<testLoading, timer, pending, bookings, appLoading, appError>>
  /\ UNCHANGED dialogVars

\* Add Test Booking, up to the await
handleAddTestBooking ==
  /\ MetricsShown
  /\ user # ""
  /\ ~testLoading
  /\ Len(calls) < MaxCalls
  /\ Len(pending) < MaxPending
  /\ testLoading' = TRUE
  /\ message' = <<>>
  /\ pending' = Append(pending, Call("addBooking", user, testBooking))
  /\ calls' = Append(calls, [userId |-> user, bookingData |-> testBooking])
  /\ UNCHANGED <<mounted, bookingType, formData, calculated, loading, error,
                 inflight, store, nextId, events>>
  /\ UNCHANGED <<user, timer, bookings, appLoading, appError>>
  /\ UNCHANGED dialogVars

\* addDoc succeeds for a call of the test card, or for a call whose page is
\* gone: handleAddTestBooking shows the id that addBooking returns
addDocResolve(i) ==
  /\ asking = NoDialog
  /\ i \in 1..Len(pending)
  /\ pending[i].op = "addBooking"
  /\ ~(pending[i].live /\ adding > 0)
  /\ store' = addBooking(store, nextId, pending[i].userId, pending[i].arg)
  /\ nextId' = nextId + 1
  /\ pending' = Without(pending, i)
  /\ message' = IF pending[i].live
                THEN <<"Success! Booking added with ID: ">>
                       \o NatText(nextId)
                ELSE message
  /\ testLoading' = IF pending[i].live THEN FALSE ELSE testLoading
  /\ UNCHANGED <<mounted, bookingType, formData, calculated, loading, error,
                 inflight, calls, events>>
  /\ UNCHANGED <<user, timer, bookings, appLoading, appError>>
  /\ UNCHANGED dialogVars

\* addDoc is rejected for such a call
addDocReject(i) ==
  /\ asking = NoDialog
  /\ i \in 1..Len(pending)
  /\ pending[i].op = "addBooking"
  /\ ~(pending[i].live /\ adding > 0)
  /\ pending' = Without(pending, i)
  /\ \E errMessage \in StoreErrors :
       message' = IF pending[i].live THEN <<"Error: ", errMessage>>
                  ELSE message
  /\ testLoading' = IF pending[i].live THEN FALSE ELSE testLoading
  /\ UNCHANGED formVars
  /\ UNCHANGED <<user, timer, bookings, appLoading, appError>>
  /\ UNCHANGED dialogVars

\* Reset All Bookings, up to window.confirm: the button is rendered for a
\* signed-in user, and the dialog opens
handleResetData ==
  /\ MetricsShown
  /\ user # ""
  /\ ~testLoading
  /\ Len(pending) < MaxPending
  /\ asking' = Asking("handleResetData")
  /\ UNCHANGED formVars
  /\ UNCHANGED <<user, message, testLoading, timer, pending, bookings,
                 appLoading, appError, showBreakdown, currentMonth, adding>>

\* window.confirm returns: OK gives true, Cancel gives false
windowConfirm(confirmed) ==
  /\ asking.open
  /\ asking' = Answered(asking.handler, confirmed)
  /\ UNCHANGED formVars
  /\ UNCHANGED <<user, message, testLoading, timer, pending, bookings,
                 appLoading, appError, showBreakdown, currentMonth, adding>>

\* a variant that goes on to delete whatever the dialog's answer is
handleResetDataUnasked ==
  /\ asking \in {Answered("handleResetData", c) : c \in BOOLEAN}
  /\ asking' = NoDialog
  /\ testLoading' = TRUE
  /\ message' = <<>>
  /\ pending' = Append(pending, Call("deleteAllBookings", user, <<>>))
  /\ UNCHANGED formVars
  /\ UNCHANGED <<user, timer, bookings, appLoading, appError, showBreakdown,
                 currentMonth, adding>>

\* Reset All Bookings after window.confirm: the handler returns when the
\* dialog was declined, and goes on up to the await when it was confirmed
handleResetDataConfirm ==
  /\ asking \in {Answered("handleResetData", c) : c \in BOOLEAN}
  /\ asking' = NoDialog
  /\ IF asking.confirmed
     THEN /\ testLoading' = TRUE
          /\ message' = <<>>
          /\ pending' = Append(pending,
                               Call("deleteAllBookings", user, <<>>))
     ELSE UNCHANGED <<testLoading, message, pending>>
  /\ UNCHANGED formVars
  /\ UNCHANGED <<user, timer, bookings, appLoading, appError, showBreakdown,
                 currentMonth, adding>>

\* a variant that reports the number of bookings left
handleResetDataDoneLeft(i) ==
  /\ asking = NoDialog
  /\ i \in 1..Len(pending)
  /\ pending[i].op = "deleteAllBookings"
  /\ LET done == deleteAllBookings(store, pending[i].userId)
     IN  /\ store' = done.store
         /\ message' = IF pending[i].live
                       THEN <<"Deleted ">>
                              \o NatText(Len(done.store[pending[i].userId]))
                              \o <<" bookings. Refreshing...">>
                       ELSE message
  /\ timer' = IF pending[i].live THEN TRUE ELSE timer
  /\ testLoading' = IF pending[i].live THEN FALSE ELSE testLoading
  /\ pending' = Without(pending, i)
  /\ UNCHANGED <<mounted, bookingType, formData, calculated, loading, error,
                 inflight, calls, nextId, events>>
  /\ UNCHANGED <<user, bookings, appLoading, appError>>
  /\ UNCHANGED dialogVars

\* deleteAllBookings succeeds: handleResetData shows the count and schedules
\* the reload
handleResetDataDone(i) ==
  /\ asking = NoDialog
  /\ i \in 1..Len(pending)
  /\ pending[i].op = "deleteAllBookings"
  /\ LET done == deleteAllBookings(store, pending[i].userId)
     IN  /\ store' = done.store
         /\ message' = IF pending[i].live
                       THEN <<"Deleted ">> \o NatText(done.count)
                              \o <<" bookings. Refreshing...">>
                       ELSE message
  /\ timer' = IF pending[i].live THEN TRUE ELSE timer
  /\ testLoading' = IF pending[i].live THEN FALSE ELSE testLoading
  /\ pending' = Without(pending, i)
  /\ UNCHANGED <<mounted, bookingType, formData, calculated, loading, error,
                 inflight, calls, nextId, events>>
  /\ UNCHANGED <<user, bookings, appLoading, appError>>
  /\ UNCHANGED dialogVars

\* deleteAllBookings is rejected
handleResetDataFailed(i) ==
  /\ asking = NoDialog
  /\ i \in 1..Len(pending)
  /\ pending[i].op = "deleteAllBookings"
  /\ pending' = Without(pending, i)
  /\ \E errMessage \in StoreErrors :
       message' = IF pending[i].live THEN <<"Error: ", errMessage>>
                  ELSE message
  /\ testLoading' = IF pending[i].live THEN FALSE ELSE testLoading
  /\ UNCHANGED formVars
  /\ UNCHANGED <<user, timer, bookings, appLoading, appError>>
  /\ UNCHANGED dialogVars

\* the scheduled window.location.reload(): an open form goes with the page
reload ==
  /\ timer
  /\ asking = NoDialog
  /\ \E now \in Clock : PageLoads(pending \o FormCalls(inflight), now)
  /\ mounted' = FALSE
  /\ bookingType' = "STR"
  /\ formData' = InitialFormData("robins-roost")
  /\ calculated' = InitialCalculated
  /\ loading' = FALSE
  /\ error' = ""
  /\ events' = 0
  /\ inflight' = <<>>
  /\ UNCHANGED <<calls, store, nextId>>

\* ------------------------------------------------------------------------
\* The form on the dashboard
\* ------------------------------------------------------------------------

\* Add Booking on a unit card: the form opens on that unit
handleAddBooking(unitId) ==
  /\ MetricsShown
  /\ mounted' = TRUE
  /\ bookingType' = "STR"
  /\ formData' = InitialFormData(unitId)
  /\ calculated' = InitialCalculated
  /\ loading' = FALSE
  /\ error' = ""
  /\ events' = 0
  /\ UNCHANGED <<inflight, calls, store, nextId>>
  /\ UNCHANGED pageVars

\* what a user types into a fresh form: the booking type and the fields
\* that get a value or are toggled
Entries ==
  {[type |-> "STR",
    fields |-> [unitId |-> "robins-roost",
                checkIn |-> D0315, checkOut |-> D0318,
                grossPayout |-> T450, platformFee |-> T6750]],
   [type |-> "STR",
    fields |-> [unitId |-> "doves-den",
                checkIn |-> D0320, checkOut |-> D0315,
                grossPayout |-> T450, platformFee |-> T500]],
   [type |-> "MTR",
    fields |-> [unitId |-> "stadium-district",
                checkIn |-> D0320, checkOut |-> D0519,
                baseMonthlyRent |-> T2000, platformFee |-> T500]],
   [type |-> "MTR",
    fields |-> [unitId |-> "doves-den",
                checkIn |-> D0315, checkOut |-> D0414,
                baseMonthlyRent |-> T2000, platformFee |-> T500,
                hasDamageProtection |-> FALSE, hasPets |-> TRUE,
                petFeePerMonth |-> T50]]}

\* the user fills in a fresh form: one handleChange per field and a click on
\* the type button, each followed by the effect that recalculates, of which
\* the last one's result stays
fillForm(entry) ==
  /\ mounted
  /\ ~loading
  /\ error = ""
  /\ bookingType = "STR"
  /\ formData = InitialFormData(entry.fields.unitId)
  /\ bookingType' = entry.type
  /\ formData' = entry.fields @@ formData
  /\ calculated' = calculateBooking(formData', bookingType')
  /\ UNCHANGED <<mounted, loading, error, inflight, calls, store, nextId,
                 events>>
  /\ UNCHANGED pageVars

\* the record a form saves after this entry was typed into it
Saved(entry, now) ==
  LET fd == entry.fields @@ InitialFormData(entry.fields.unitId)
  IN  BookingData(entry.type, fd, calculateBooking(fd, entry.type),
                  getCurrentMonth(now))

\* what the store can hold when the page is opened: nothing, or the
\* bookings that the form saved before, of each entry one, the second one
\* in November and the others in March
EarlierBookings ==
  {<<>>,
   <<[id |-> 1] @@ Saved(CHOOSE e \in Entries :
                           e.fields.unitId = "robins-roost",
                         [year |-> 2026, month |-> 2]),
     [id |-> 2] @@ Saved(CHOOSE e \in Entries :
                           e.fields.unitId = "doves-den" /\ e.type = "STR",
                         [year |-> 2026, month |-> 10]),
     [id |-> 3] @@ Saved(CHOOSE e \in Entries :
                           e.fields.unitId = "stadium-district",
                         [year |-> 2026, month |-> 2])>>}

\* the page has just been opened: nobody is signed in, and the dashboard
\* asks the store for the current month's bookings
DashboardInit ==
  /\ mounted = FALSE
  /\ bookingType = "STR"
  /\ formData = InitialFormData("robins-roost")
  /\ calculated = InitialCalculated
  /\ loading = FALSE
  /\ error = ""
  /\ inflight = <<>>
  /\ calls = <<>>
  /\ \E docs \in EarlierBookings :
       /\ store = [a \in Accounts |-> IF a = FormUserId THEN docs ELSE <<>>]
       /\ nextId = Len(docs) + 1
  /\ events = 0
  /\ user = ""
  /\ message = <<>>
  /\ testLoading = FALSE
  /\ timer = FALSE
  /\ \E now \in Clock :
       /\ pending = <<Call("getBookingsByMonth", FormUserId,
                           getCurrentMonth(now))>>
       /\ currentMonth = getCurrentMonth(now)
  /\ showBreakdown = FALSE
  /\ asking = NoDialog
  /\ adding = 0
  /\ bookings = <<>>
  /\ appLoading = TRUE
  /\ appError = ""

\* the dashboard with its form: the form is opened on a unit, filled in and
\* saved, and the page reloads
DashboardNext ==
  \/ \E i \in 1..Len(pending) : fetchDataResolve(i)
  \/ \E i \in 1..Len(pending) : fetchDataReject(i)
  \/ \E k \in 1..Len(ManagedUnits) : handleAddBooking(ManagedUnits[k])
  \/ \E entry \in Entries : fillForm(entry)
  \/ handleSubmit
  \/ addBookingResolve
  \/ addBookingReject

DashboardSpec == DashboardInit /\ [][DashboardNext]_vars

\* the dashboard with its form and the form's Cancel and close buttons, which
\* stay enabled while a booking is being saved
CancelNext ==
  \/ \E i \in 1..Len(pending) : fetchDataResolve(i)
  \/ \E i \in 1..Len(pending) : fetchDataReject(i)
  \/ \E k \in 1..Len(ManagedUnits) : handleAddBooking(ManagedUnits[k])
  \/ \E entry \in Entries : fillForm(entry)
  \/ handleSubmit
  \/ onClose
  \/ addBookingResolve
  \/ addBookingReject

CancelSpec == DashboardInit /\ [][CancelNext]_vars

\* the dashboard with its form and the sign-in part of the test card: users
\* sign in and out and add the sample booking, and bookings are saved with
\* the form of the first unit
AccountNext ==
  \/ \E i \in 1..Len(pending) : fetchDataResolve(i)
  \/ \E i \in 1..Len(pending) : fetchDataReject(i)
  \/ handleAddBooking(ManagedUnits[1])
  \/ \E entry \in Entries : fillForm(entry)
  \/ handleSubmit
  \/ addBookingResolve
  \/ addBookingReject
  \/ \E uid \in Accounts : handleGoogleSignIn(uid)
  \/ handleSignOut
  \/ handleAddTestBooking
  \/ \E i \in 1..Len(pending) : addDocResolve(i)
  \/ \E i \in 1..Len(pending) : addDocReject(i)

AccountSpec == DashboardInit /\ [][AccountNext]_vars

\* ------------------------------------------------------------------------
\* The breakdown modal
\* ------------------------------------------------------------------------

\* the link View STR vs MTR Breakdown (show) and the modal's close button
\* (~show).  setShowBreakdown makes App render again: the render reads
\* getCurrentMonth(), and when the month is no longer the one of the render
\* before, the effect runs again and fetches the bookings of the new month
setShowBreakdown(show) ==
  /\ ~appLoading
  /\ appError = ""
  /\ ~mounted
  /\ showBreakdown = ~show
  /\ show => bookings # <<>>
  /\ showBreakdown' = show
  /\ \E now \in Clock :
       /\ currentMonth' = getCurrentMonth(now)
       /\ IF currentMonth' # currentMonth
          THEN /\ appLoading' = TRUE
               /\ pending' = Append(pending,
                                    Call("getBookingsByMonth", FormUserId,
                                         currentMonth'))
          ELSE UNCHANGED <<appLoading, pending>>
  /\ UNCHANGED formVars
  /\ UNCHANGED <<user, message, testLoading, timer, bookings, appError,
                 asking, adding>>

\* the dashboard with its form and its breakdown modal
BreakdownNext ==
  \/ \E i \in 1..Len(pending) : fetchDataResolve(i)
  \/ \E i \in 1..Len(pending) : fetchDataReject(i)
  \/ \E k \in 1..Len(ManagedUnits) : handleAddBooking(ManagedUnits[k])
  \/ \E entry \in Entries : fillForm(entry)
  \/ handleSubmit
  \/ addBookingResolve
  \/ addBookingReject
  \/ \E show \in BOOLEAN : setShowBreakdown(show)

BreakdownSpec == DashboardInit /\ [][BreakdownNext]_vars

\* the dashboard with its test card: users sign in and out, add the sample
\* booking and reset their bookings, and the page reloads
TestCardNext ==
  \/ \E i \in 1..Len(pending) : fetchDataResolve(i)
  \/ \E i \in 1..Len(pending) : fetchDataReject(i)
  \/ \E uid \in Accounts : handleGoogleSignIn(uid)
  \/ handleGoogleSignInFailed
  \/ handleSignOut
  \/ handleAddTestBooking
  \/ \E i \in 1..Len(pending) : addDocResolve(i)
  \/ \E i \in 1..Len(pending) : addDocReject(i)
  \/ handleResetData
  \/ \E confirmed \in BOOLEAN : windowConfirm(confirmed)
  \/ handleResetDataConfirm
  \/ \E i \in 1..Len(pending) : handleResetDataDone(i)
  \/ \E i \in 1..Len(pending) : handleResetDataFailed(i)
  \/ reload

TestCardSpec == DashboardInit /\ [][TestCardNext]_vars

\* ------------------------------------------------------------------------
\* The demo data of the test card
\* ------------------------------------------------------------------------

\* '2026-01'
Month202601 == <<"2", "0", "2", "6", "-", "0", "1">>

\* the text '2026-01-dd'
Jan2026(day) == Month202601 \o <<"-">> \o PadStart2(NatText(day))

\* the texts that the dates of mockBookings are made from
mockDates ==
  <<[checkIn |-> Jan2026(3), checkOut |-> Jan2026(6)],
    [checkIn |-> Jan2026(10), checkOut |-> Jan2026(14)],
    [checkIn |-> Jan2026(20), checkOut |-> Jan2026(25)],
    [checkIn |-> Jan2026(1), checkOut |-> Jan2026(31)],
    [checkIn |-> Jan2026(8), checkOut |-> Jan2026(11)],
    [checkIn |-> Jan2026(15), checkOut |-> Jan2026(25)]>>

\* an STR booking of mockBookings; the cleaning cost is 150 in all of them
MockStr(k, unitId, nights, grossPayout, platform, feeCents, netCents) ==
  [unitId |-> unitId,
   type |-> "STR",
   checkIn |-> Date(mockDates[k].checkIn),
   checkOut |-> Date(mockDates[k].checkOut),
   nights |-> Num(nights),
   grossPayout |-> Num(grossPayout * Cents),
   platform |-> platform,
   platformFee |-> Num(feeCents),
   cleaningCost |-> Num(150 * Cents),
   netIncome |-> Num(netCents),
   month |-> Month202601]

\* mockBookings of handleLoadMockData
mockBookings ==
  <<MockStr(1, "robins-roost", 3, 420, "Airbnb", 63 * Cents, 207 * Cents),
    MockStr(2, "robins-roost", 4, 560, "Vrbo", 84 * Cents, 326 * Cents),
    MockStr(3, "robins-roost", 5, 700, "Airbnb", 105 * Cents, 445 * Cents),
    [unitId |-> "doves-den",
     type |-> "MTR",
     checkIn |-> Date(mockDates[4].checkIn),
     checkOut |-> Date(mockDates[4].checkOut),
     nights |-> Num(30),
     grossPayout |-> Num(2400 * Cents),
     platform |-> "Furnished Finder",
     platformFee |-> Num(240 * Cents),
     cleaningCost |-> Num(350 * Cents),
     netIncome |-> Num(1810 * Cents),
     baseMonthlyRent |-> Num(2000 * Cents),
     damageProtection |-> Num(80 * Cents),
     hasPets |-> TRUE,
     petCount |-> Num(1),
     petFeePerMonth |-> Num(50 * Cents),
     petDeposit |-> Num(250 * Cents),
     securityDeposit |-> Num(500 * Cents),
     month |-> Month202601],
    MockStr(5, "stadium-district", 3, 390, "Airbnb", 5850, 18150),
    MockStr(6, "stadium-district", 10, 1300, "Airbnb", 195 * Cents,
            955 * Cents)>>

\* the digits of a whole number in groups of three, separated by commas
RECURSIVE Grouped(_)
Grouped(n) ==
  IF n < 1000 THEN NatText(n)
  ELSE LET rest == n % 1000
       IN  Grouped(n \div 1000) \o <<",">>
             \o (IF rest < 100 THEN <<"0">> ELSE <<>>)
             \o (IF rest < 10 THEN <<"0">> ELSE <<>>)
             \o NatText(rest)

\* a variant that cuts the cents off
formatCurrencyTruncated(amount) ==
  IF amount.nan THEN <<"$", "NaN">>
  ELSE (IF amount.num < 0 THEN <<"-">> ELSE <<>>)
         \o <<"$">> \o Grouped(Abs(amount.num) \div (Cents * amount.den))

\* formatCurrency of the dashboard: US dollars without fraction digits, the
\* amount rounded to the nearest dollar, a half away from zero
formatCurrency(amount) ==
  IF amount.nan THEN <<"$", "NaN">>
  ELSE LET dollars == (2 * Abs(amount.num) + Cents * amount.den)
                        \div (2 * Cents * amount.den)
       IN  (IF amount.num < 0 THEN <<"-">> ELSE <<>>)
             \o <<"$">> \o Grouped(dollars)

\* Load Mock Data, up to window.confirm: the button is rendered for a
\* signed-in user, and the dialog opens
handleLoadMockData ==
  /\ MetricsShown
  /\ user # ""
  /\ ~testLoading
  /\ Len(calls) < MaxCalls
  /\ Len(pending) < MaxPending
  /\ asking' = Asking("handleLoadMockData")
  /\ UNCHANGED formVars
  /\ UNCHANGED <<user, message, testLoading, timer, pending, bookings,
                 appLoading, appError, showBreakdown, currentMonth, adding>>

\* Load Mock Data after window.confirm: the handler returns when the
\* dialog was declined, and goes on up to the first await when it was
\* confirmed
handleLoadMockDataConfirm ==
  /\ asking \in {Answered("handleLoadMockData", c) : c \in BOOLEAN}
  /\ asking' = NoDialog
  /\ IF asking.confirmed
     THEN /\ testLoading' = TRUE
          /\ message' = <<"Loading demo data...">>
          /\ adding' = 1
          /\ pending' = Append(pending,
                               Call("addBooking", user, mockBookings[1]))
          /\ calls' = Append(calls, [userId |-> user,
                                     bookingData |-> mockBookings[1]])
     ELSE UNCHANGED <<testLoading, message, adding, pending, calls>>
  /\ UNCHANGED <<mounted, bookingType, formData, calculated, loading, error,
                 inflight, store, nextId, events>>
  /\ UNCHANGED <<user, timer, bookings, appLoading, appError, showBreakdown,
                 currentMonth>>

\* addDoc succeeds for the booking that the load is adding: the loop goes on
\* to the next booking of the list, under the uid read when the load
\* started; after the last one the handler shows the count and schedules
\* the reload
handleLoadMockDataNext(i) ==
  /\ asking = NoDialog
  /\ i \in 1..Len(pending)
  /\ pending[i].op = "addBooking"
  /\ pending[i].live
  /\ adding > 0
  /\ store' = addBooking(store, nextId, pending[i].userId, pending[i].arg)
  /\ nextId' = nextId + 1
  /\ IF adding < Len(mockBookings)
     THEN /\ adding' = adding + 1
          /\ pending' = Append(Without(pending, i),
                               Call("addBooking", pending[i].userId,
                                    mockBookings[adding + 1]))
          /\ calls' = Append(calls, [userId |-> pending[i].userId,
                                     bookingData |->
                                       mockBookings[adding + 1]])
          /\ UNCHANGED <<message, testLoading, timer>>
     ELSE /\ adding' = 0
          /\ pending' = Without(pending, i)
          /\ message' = <<"Demo data loaded! ">> \o NatText(adding)
                          \o <<" bookings added. Refreshing...">>
          /\ timer' = TRUE
          /\ testLoading' = FALSE
          /\ UNCHANGED calls
  /\ UNCHANGED <<mounted, bookingType, formData, calculated, loading, error,
                 inflight, events>>
  /\ UNCHANGED <<user, bookings, appLoading, appError, showBreakdown,
                 currentMonth, asking>>

\* a variant that goes on to the next booking after a rejection
handleLoadMockDataFailedOn(i) ==
  /\ asking = NoDialog
  /\ i \in 1..Len(pending)
  /\ pending[i].op = "addBooking"
  /\ pending[i].live
  /\ adding > 0
  /\ adding < Len(mockBookings)
  /\ adding' = adding + 1
  /\ pending' = Append(Without(pending, i),
                       Call("addBooking", pending[i].userId,
                            mockBookings[adding + 1]))
  /\ calls' = Append(calls, [userId |-> pending[i].userId,
                             bookingData |-> mockBookings[adding + 1]])
  /\ UNCHANGED <<mounted, bookingType, formData, calculated, loading, error,
                 inflight, store, nextId, events>>
  /\ UNCHANGED <<user, message, testLoading, timer, bookings, appLoading,
                 appError, showBreakdown, currentMonth, asking>>

\* addDoc is rejected for the booking that the load is adding: the loop is
\* left, and the handler shows the error
handleLoadMockDataFailed(i) ==
  /\ asking = NoDialog
  /\ i \in 1..Len(pending)
  /\ pending[i].op = "addBooking"
  /\ pending[i].live
  /\ adding > 0
  /\ adding' = 0
  /\ pending' = Without(pending, i)
  /\ \E errMessage \in StoreErrors : message' = <<"Error: ", errMessage>>
  /\ testLoading' = FALSE
  /\ UNCHANGED formVars
  /\ UNCHANGED <<user, timer, bookings, appLoading, appError, showBreakdown,
                 currentMonth, asking>>

\* the dashboard with the test card and its demo data: a guest signs in
\* and out, adds the sample booking, loads the demo data and resets the
\* bookings, and the page reloads
DemoNext ==
  \/ \E i \in 1..Len(pending) : fetchDataResolve(i)
  \/ \E i \in 1..Len(pending) : fetchDataReject(i)
  \/ handleGoogleSignIn(GuestUserId)
  \/ handleSignOut
  \/ handleAddTestBooking
  \/ \E i \in 1..Len(pending) : addDocResolve(i)
  \/ \E i \in 1..Len(pending) : addDocReject(i)
  \/ handleLoadMockData
  \/ handleLoadMockDataConfirm
  \/ \E i \in 1..Len(pending) : handleLoadMockDataNext(i)
  \/ \E i \in 1..Len(pending) : handleLoadMockDataFailed(i)
  \/ handleResetData
  \/ \E confirmed \in BOOLEAN : windowConfirm(confirmed)
  \/ handleResetDataConfirm
  \/ \E i \in 1..Len(pending) : handleResetDataDone(i)
  \/ \E i \in 1..Len(pending) : handleResetDataFailed(i)
  \/ reload

DemoSpec == DashboardInit /\ [][DemoNext]_vars

\* ------------------------------------------------------------------------
\* What the input texts denote, read off the texts themselves
\* ------------------------------------------------------------------------

\* the amount a money text denotes, in cents; 0 for an absent or
\* unparseable text
CentsOf(text) ==
  CASE text = T50 -> 5000
    [] text = T80 -> 8000
    [] text = T150 -> 15000
    [] text = T250 -> 25000
    [] text = T350 -> 35000
    [] text = T450 -> 45000
    [] text = T500 -> 50000
    [] text = T2000 -> 200000
    [] text = T6750 -> 6750
    [] OTHER -> 0

\* the texts that denote an instant
DateTexts == {D0315, D0320, Noon0317, D0414, D0519}

\* the instant a date text denotes, in minutes after 2026-03-15T00:00Z
MinuteOf(text) ==
  CASE text = D0315 -> 0
    [] text = Noon0317 -> 2 * 1440 + 720
    [] text = D0320 -> 5 * 1440
    [] text = D0414 -> 30 * 1440
    [] text = D0519 -> 65 * 1440

\* both date inputs are filled
DatesPresent == formData.checkIn # Empty /\ formData.checkOut # Empty

\* both date inputs hold a date
DatesParse ==
  formData.checkIn \in DateTexts /\ formData.checkOut \in DateTexts

\* ------------------------------------------------------------------------
\* Claims
\* ------------------------------------------------------------------------

\* C1: for an STR booking with both dates present, netIncome is exactly
\* grossPayout - platformFee - cleaningCost, also when that is negative.
C1_StrNetIncome ==
  (mounted /\ bookingType = "STR" /\ DatesPresent) =>
    calculated.netIncome =
      Num(CentsOf(formData.grossPayout) - CentsOf(formData.platformFee)
            - CentsOf(formData.cleaningCost))

\* an STR booking with all three amounts filled in and a negative result
C1_Witness ==
  /\ mounted /\ bookingType = "STR" /\ DatesParse
  /\ formData.grossPayout = T450
  /\ formData.platformFee = T500
  /\ formData.cleaningCost = T150
  /\ calculated.netIncome = Num(-20000)

\* C2: for an MTR booking without pets and without damage protection,
\* netIncome is baseMonthlyRent * (days / 30) - platformFee -
\* moveOutCleaning, with days / 30 fractional.
C2_MtrNetIncomePlain ==
  (/\ mounted /\ bookingType = "MTR" /\ DatesParse
   /\ ~formData.hasPets /\ ~formData.hasDamageProtection) =>
    /\ ~calculated.days.nan
    /\ calculated.netIncome =
         Rat(CentsOf(formData.baseMonthlyRent) * calculated.days.num
               - DaysPerMonth * CentsOf(formData.platformFee)
               - DaysPerMonth * CentsOf(formData.moveOutCleaning),
             DaysPerMonth)

\* a plain MTR booking of 63 days (not a whole number of months) with a rent
C2_Witness ==
  /\ mounted /\ bookingType = "MTR"
  /\ ~formData.hasPets /\ ~formData.hasDamageProtection
  /\ formData.baseMonthlyRent = T2000
  /\ calculated.days = Num(63)
  /\ calculated.netIncome = Rat(200000 * 63 - 30 * 35000, 30)

\* the MTR net income of the current inputs with the two toggles set
MtrNetIncomeWith(hasPets, hasDamageProtection) ==
  calculateBooking([formData EXCEPT
                      !.hasPets = hasPets,
                      !.hasDamageProtection = hasDamageProtection],
                   "MTR").netIncome

\* the number of pets a petCount text denotes
PetsOf(text) ==
  CASE text = <<"1">> -> 1
    [] text = <<"2">> -> 2
    [] OTHER -> 0

\* C3: with all other inputs of an MTR booking fixed, hasPets true instead
\* of false adds exactly petFeePerMonth * petCount * (days / 30) + petDeposit
\* to netIncome, and hasDamageProtection false instead of true takes
\* exactly damageProtection * (days / 30) from it.
C3_MtrToggles ==
  (mounted /\ bookingType = "MTR" /\ DatesParse) =>
    /\ ~calculated.days.nan
    /\ \A protection \in BOOLEAN :
         Minus(MtrNetIncomeWith(TRUE, protection),
               MtrNetIncomeWith(FALSE, protection))
           = Rat(CentsOf(formData.petFeePerMonth)
                   * PetsOf(formData.petCount) * calculated.days.num
                   + DaysPerMonth * CentsOf(formData.petDeposit),
                 DaysPerMonth)
    /\ \A pets \in BOOLEAN :
         Minus(MtrNetIncomeWith(pets, FALSE), MtrNetIncomeWith(pets, TRUE))
           = Rat(-(CentsOf(formData.damageProtection)
                     * calculated.days.num),
                 DaysPerMonth)

\* an MTR booking of 25 days with pets, a pet fee and damage protection
C3_Witness ==
  /\ mounted /\ bookingType = "MTR"
  /\ calculated.days = Num(25)
  /\ formData.hasPets /\ formData.hasDamageProtection
  /\ formData.petFeePerMonth = T50
  /\ formData.petDeposit = T250
  /\ formData.damageProtection = T80
  /\ Minus(calculated.netIncome, MtrNetIncomeWith(FALSE, TRUE))
       = Rat(5000 * 25 + 30 * 25000, 30)
  /\ Minus(MtrNetIncomeWith(TRUE, FALSE), calculated.netIncome)
       = Rat(-(8000 * 25), 30)

\* C4: for dates with checkIn < checkOut, an STR calculation has nights =
\* days = the ceiling of checkOut - checkIn in whole days.
C4_StrNightsCeiling ==
  (/\ mounted /\ bookingType = "STR" /\ DatesParse
   /\ MinuteOf(formData.checkIn) < MinuteOf(formData.checkOut)) =>
    LET diff == MinuteOf(formData.checkOut) - MinuteOf(formData.checkIn)
        ceiling == CHOOSE n \in 1..100 :
                     (n - 1) * 1440 < diff /\ diff <= n * 1440
    IN  /\ calculated.nights = Num(ceiling)
        /\ calculated.days = Num(ceiling)

\* an STR stay of 27 days and a half, which counts as 28 nights
C4_Witness ==
  /\ mounted /\ bookingType = "STR"
  /\ formData.checkIn = Noon0317 /\ formData.checkOut = D0414
  /\ calculated.nights = Num(28) /\ calculated.days = Num(28)

\* C5: when checkIn or checkOut is empty, for either booking type and any
\* other inputs, displayText is "" and netIncome, nights, months and days
\* are 0.
C5_MissingDates ==
  (formData.checkIn = Empty \/ formData.checkOut = Empty) =>
    /\ calculated.displayText = Empty
    /\ calculated.netIncome = Num(0)
    /\ calculated.nights = Num(0)
    /\ calculated.months = Num(0)
    /\ calculated.days = Num(0)

\* an MTR form with a check-in, a rent and a fee but no check-out
C5_Witness ==
  /\ mounted /\ bookingType = "MTR"
  /\ formData.checkIn = D0320 /\ formData.checkOut = Empty
  /\ formData.baseMonthlyRent = T2000
  /\ formData.platformFee = T500
  /\ calculated.netIncome = Num(0)
  /\ calculated.displayText = Empty

\* C6: in every state of the form, whatever the inputs hold (the date
\* inputs included), the calculated netIncome is a finite number, never
\* NaN.
C6_NetIncomeFinite == IsFinite(calculated.netIncome)

\* C7: a money input that is absent or unparseable counts as exactly 0: the
\* calculation gives what it gives with "0" typed into that input.
C7_AbsentMoneyIsZero ==
  \A name \in MoneyFields :
    formData[name] \in {Empty, Junk} =>
      calculated =
        calculateBooking([formData EXCEPT ![name] = <<"0">>], bookingType)

\* an MTR booking of 60 days with pets whose rent is absent and whose pet
\* fee is unparseable, and a net income that is a number
C7_Witness ==
  /\ mounted /\ bookingType = "MTR"
  /\ calculated.days = Num(60)
  /\ formData.hasPets
  /\ formData.baseMonthlyRent = Empty
  /\ formData.petFeePerMonth = Junk
  /\ calculated.netIncome = Rat(8000 * 60 + 30 * (25000 - 35000), 30)

\* a count and its unit, as the duration label writes them
LabelPart(n, unit) ==
  ToText(Num(n)) \o <<unit>> \o (IF n # 1 THEN <<"s">> ELSE <<>>)

\* C8: for an MTR booking of d days, months = floor(d / 30) and remainder =
\* d mod 30 with 0 <= remainder < 30; the label shows both parts when both
\* are non-zero, only the months when the remainder is 0, only the days
\* when months is 0.
C8_MtrMonthsAndDays ==
  (mounted /\ bookingType = "MTR" /\ DatesParse) =>
    /\ ~calculated.days.nan
    /\ LET d == calculated.days.num
           months == d \div DaysPerMonth
           remainder == d % DaysPerMonth
       IN  /\ calculated.months = Num(months)
           /\ calculated.displayText =
                IF months = 0 THEN LabelPart(remainder, " day")
                ELSE IF remainder = 0 THEN LabelPart(months, " month")
                ELSE LabelPart(months, " month") \o <<", ">>
                       \o LabelPart(remainder, " day")

\* C9: the MTR calculation does not depend on securityDeposit: an edit of
\* that input alone leaves netIncome and the duration as they were.
C9_DepositNotIncome ==
  [][(/\ mounted /\ mounted'
      /\ bookingType = "MTR" /\ bookingType' = "MTR"
      /\ formData'.securityDeposit # formData.securityDeposit
      /\ formData' = [formData EXCEPT
                        !.securityDeposit = formData'.securityDeposit])
       => calculated' = calculated]_vars

\* an MTR booking of 63 days with a rent and a security deposit typed in
C9_Witness ==
  /\ mounted /\ bookingType = "MTR"
  /\ calculated.days = Num(63)
  /\ formData.baseMonthlyRent = T2000
  /\ formData.securityDeposit = T500
  /\ calculated.netIncome =
       Rat((200000 + 8000) * 63 - 30 * 35000, 30)

\* C10: every booking record the form passes to addBooking has checkOut >
\* checkIn and a positive duration.  Stated for the records whose two dates
\* are dates, so that a violation never rests on an unparseable date.
C10_SavedDatesOrdered ==
  \A i \in 1..Len(calls) :
    LET data == calls[i].bookingData
    IN  (~data.checkIn.nan /\ ~data.checkOut.nan) =>
          /\ Gt(data.checkOut, data.checkIn)
          /\ Gt(data.nights, Num(0))

\* C11: after any sequence of field edits and STR/MTR toggles, the displayed
\* result of an open form is the calculator applied to the current formData
\* and bookingType, and the netIncome and nights that handleSubmit passes to
\* addBooking are the calculator's output for the inputs present at
\* submission time.
C11_SavedIsCurrentCalculation ==
  [][/\ mounted' => calculated' = calculateBooking(formData', bookingType')
     /\ Len(calls') > Len(calls) =>
          LET data == calls'[Len(calls')].bookingData
              now == calculateBooking(formData, bookingType)
          IN  /\ data.netIncome = now.netIncome
              /\ data.nights = IF bookingType = "STR" THEN now.nights
                               ELSE now.days]_vars

\* an STR booking of 25 nights was submitted after its four inputs were
\* typed one by one
C11_Witness ==
  /\ Len(calls) = 1
  /\ calls[1].bookingData.type = "STR"
  /\ calls[1].bookingData.nights = Num(25)
  /\ calls[1].bookingData.netIncome = Num(45000 - 6750 - 15000)

\* C12: when the store rejects the addBooking of a form submission, the
\* message is put in the form's error state, the form stays open and is no
\* longer loading, no booking is added, and addBooking is not called again:
\* every call of addBooking is made by a submit of a form that was not
\* loading.
C12_RejectionShown ==
  [][/\ (mounted /\ inflight # <<>> /\ inflight' = Tail(inflight)
          /\ store' = store) =>
          /\ error' \in StoreErrors
          /\ error' # ""
          /\ mounted'
          /\ ~loading'
     /\ (error' # error /\ error' # "") =>
          /\ mounted /\ mounted'
          /\ store' = store
          /\ calls' = calls
     /\ calls' # calls =>
          /\ mounted /\ ~loading /\ loading'
          /\ Len(calls') = Len(calls) + 1
          /\ SubSeq(calls', 1, Len(calls)) = calls]_vars

\* a submission was rejected: the message is up, the form is open, nothing
\* was stored and addBooking was called once
C12_Witness ==
  /\ mounted /\ ~loading
  /\ error = "permission-denied"
  /\ Len(calls) = 1
  /\ inflight = <<>>
  /\ \A a \in Accounts : store[a] = <<>>

\* C20: every booking the form passes to addBooking carries a month key
\* YYYY-MM: four digits, a dash, and two digits that read 01..12.
C20_MonthKey ==
  \A i \in 1..Len(calls) :
    LET month == calls[i].bookingData.month
    IN  /\ Len(month) = 7
        /\ \A k \in {1, 2, 3, 4, 6, 7} : IsDigit(month[k])
        /\ month[5] = "-"
        /\ LET mm == 10 * DigitVal(month[6]) + DigitVal(month[7])
           IN  mm >= 1 /\ mm <= 12

\* a booking saved in March 2026, whose month number has one digit
C20_Witness ==
  /\ Len(calls) = 1
  /\ calls[1].bookingData.month = <<"2", "0", "2", "6", "-", "0", "3">>

\* ------------------------------------------------------------------------
\* What a step of the store looks like from outside
\* ------------------------------------------------------------------------

\* the step answers the i-th call of the page, which is a call of op
Answers(i, op) ==
  /\ i \in 1..Len(pending)
  /\ pending[i].op = op
  /\ pending' = Without(pending, i)

\* the ids of the documents
IdsOf(docs) == {docs[k].id : k \in 1..Len(docs)}

\* the document without its id
DataOf(doc) == [f \in DOMAIN doc \ {"id"} |-> doc[f]]

\* C13: when a call addBooking(userId, bookingData) of the test card is
\* answered, either the card shows the id that addBooking returned, and then
\* that account's collection has gained exactly one document, with that id,
\* a new one, and the data of the call, and no other account has changed; or
\* the card shows the store's error, and then no booking was added.
C13_AddBooking ==
  [][\A i \in 1..Len(pending) :
       (Answers(i, "addBooking") /\ pending[i].live) =>
         LET uid == pending[i].userId
             docs == store'[uid]
         IN  \/ /\ \E errMessage \in StoreErrors :
                     message' = <<"Error: ", errMessage>>
                /\ store' = store
             \/ /\ Len(docs) = Len(store[uid]) + 1
                /\ SubSeq(docs, 1, Len(store[uid])) = store[uid]
                /\ \A a \in Accounts \ {uid} : store'[a] = store[a]
                /\ DataOf(docs[Len(docs)]) = pending[i].arg
                /\ \A a \in Accounts : docs[Len(docs)].id \notin IdsOf(store[a])
                /\ message' = <<"Success! Booking added with ID: ">>
                                \o NatText(docs[Len(docs)].id)]_vars

\* the guest added the sample booking and the card shows its id, 4
C13_Witness ==
  /\ message = <<"Success! Booking added with ID: ", "4">>
  /\ Len(store[GuestUserId]) = 1
  /\ store[GuestUserId][1].id = 4
  /\ DataOf(store[GuestUserId][1]) = testBooking

\* C14: when the dashboard's getBookingsByMonth(userId, month) succeeds,
\* the bookings it returns are exactly the documents of that account whose
\* month is the given one, each once, and each one's checkIn is not before
\* the checkIn of the one after it.
C14_BookingsOfMonth ==
  [][\A i \in 1..Len(pending) :
       (Answers(i, "getBookingsByMonth") /\ appError' = "") =>
         LET docs == store[pending[i].userId]
             wanted == {k \in 1..Len(docs) : docs[k].month = pending[i].arg}
         IN  /\ Len(bookings') = Cardinality(wanted)
             /\ \A k \in wanted :
                  \E n \in 1..Len(bookings') : bookings'[n] = docs[k]
             /\ \A n \in 1..(Len(bookings') - 1) :
                  ~Gt(bookings'[n + 1].checkIn, bookings'[n].checkIn)]_vars

\* of three stored bookings the two of March are loaded, the later check-in
\* first although it was stored last
C14_Witness ==
  /\ Len(store[FormUserId]) = 3
  /\ Len(bookings) = 2
  /\ bookings[1].id = 3 /\ bookings[2].id = 1
  /\ Gt(bookings[1].checkIn, bookings[2].checkIn)

\* C15: a booking belongs to one account: no document id occurs under two
\* accounts, a step in which an account gains a booking is the answer to an
\* addBooking call for that very account, and the bookings that
\* getBookingsByMonth(A, m) returns are documents of A, none of them a
\* document of another account.
C15_OneAccount ==
  [][/\ \A a, b \in Accounts :
          a # b => IdsOf(store'[a]) \cap IdsOf(store'[b]) = {}
     /\ \A a \in Accounts :
          Len(store'[a]) > Len(store[a]) =>
            \E i \in 1..Len(pending) :
              Answers(i, "addBooking") /\ pending[i].userId = a
     /\ \A i \in 1..Len(pending) :
          (Answers(i, "getBookingsByMonth") /\ appError' = "") =>
            \A n \in 1..Len(bookings') :
              /\ \E k \in 1..Len(store[pending[i].userId]) :
                   store[pending[i].userId][k] = bookings'[n]
              /\ \A b \in Accounts \ {pending[i].userId} :
                   bookings'[n].id \notin IdsOf(store[b])]_vars

\* both accounts hold bookings, and the dashboard has loaded the ones of
\* March, which are of its own account
C15_Witness ==
  /\ Len(store[GuestUserId]) = 1
  /\ Len(store[FormUserId]) = 3
  /\ Len(bookings) = 2
  /\ store[GuestUserId][1].month = bookings[1].month

\* C16: no step changes a stored booking: in every step an account's
\* bookings stay as they are, or gain one booking at the end, or, in the
\* answer to the reset's deleteAllBookings call for that account, are all
\* removed at once.
C16_CreateOnceBulkDelete ==
  [][\A a \in Accounts :
       \/ store'[a] = store[a]
       \/ /\ Len(store'[a]) = Len(store[a]) + 1
          /\ SubSeq(store'[a], 1, Len(store[a])) = store[a]
       \/ /\ store'[a] = <<>>
          /\ \E i \in 1..Len(pending) :
               Answers(i, "deleteAllBookings") /\ pending[i].userId = a]_vars

\* the account that held three bookings gained a fourth, and then the reset
\* removed them all
C16_Witness ==
  /\ store[FormUserId] = <<>>
  /\ Len(calls) = 1
  /\ calls[1].userId = FormUserId
  /\ nextId = 5

\* C17: when the reset's deleteAllBookings(accountId) succeeds, the message
\* reports the number of bookings the account held before the call, the
\* account holds no bookings afterwards, and no other account has changed.
C17_DeletedCount ==
  [][\A i \in 1..Len(pending) :
       (Answers(i, "deleteAllBookings") /\ pending[i].live
          /\ message' # <<>> /\ message'[1] = "Deleted ") =>
         /\ message' = <<"Deleted ">>
                         \o NatText(Len(store[pending[i].userId]))
                         \o <<" bookings. Refreshing...">>
         /\ store'[pending[i].userId] = <<>>
         /\ \A a \in Accounts \ {pending[i].userId} :
              store'[a] = store[a]]_vars

\* the reset of an account with three bookings reported 3 and left none
C17_Witness ==
  /\ message = <<"Deleted ", "3", " bookings. Refreshing...">>
  /\ store[FormUserId] = <<>>
  /\ user = FormUserId
  /\ timer

\* C18: an STR form with check-in 2026-03-15, check-out 2026-03-18, gross
\* 450, platform fee 67.50 and cleaning 150 shows nights = 3 and netIncome =
\* 232.50, and these are the nights and netIncome of the sample booking of
\* the test card.
C18_WorkedExample ==
  (/\ mounted /\ bookingType = "STR"
   /\ formData.checkIn = D0315 /\ formData.checkOut = D0318
   /\ formData.grossPayout = T450 /\ formData.platformFee = T6750
   /\ formData.cleaningCost = T150) =>
    /\ calculated.nights = Num(3)
    /\ calculated.netIncome = Num(23250)
    /\ calculated.nights = testBooking.nights
    /\ calculated.netIncome = testBooking.netIncome

\* the example has been typed into a form opened on Robin's Roost
C18_Witness ==
  /\ mounted /\ bookingType = "STR"
  /\ formData.unitId = "robins-roost"
  /\ formData.checkIn = D0315 /\ formData.checkOut = D0318
  /\ formData.grossPayout = T450 /\ formData.platformFee = T6750
  /\ formData.cleaningCost = T150
  /\ calculated.displayText = <<"3", " night", "s">>

\* the sum of field over the loaded bookings at the positions in S
RECURSIVE SumAt(_, _)
SumAt(S, field) ==
  IF S = {} THEN Num(0)
  ELSE LET k == CHOOSE k \in S : TRUE
       IN  Plus(bookings[k][field], SumAt(S \ {k}, field))

\* the positions of the loaded bookings of a unit
PositionsOf(unitId) ==
  {k \in 1..Len(bookings) : bookings[k].unitId = unitId}

\* C19: the monthly net income is the sum of netIncome over the loaded
\* bookings, each unit card's netIncome and nights are the sums over the
\* loaded bookings of that unit, and when every loaded booking is of one of
\* the three units, the three cards' net incomes add up to the monthly net
\* income.
C19_DashboardSums ==
  /\ totalIncome(bookings) = SumAt(1..Len(bookings), "netIncome")
  /\ Len(units(bookings)) = 3
  /\ \A k \in 1..3 :
       LET unit == units(bookings)[k]
       IN  /\ unit.netIncome = SumAt(PositionsOf(unit.id), "netIncome")
           /\ unit.nights = SumAt(PositionsOf(unit.id), "nights")
  /\ (\A k \in 1..Len(bookings) :
        \E n \in 1..3 : bookings[k].unitId = ManagedUnits[n]) =>
       Plus(Plus(units(bookings)[1].netIncome, units(bookings)[2].netIncome),
            units(bookings)[3].netIncome) = totalIncome(bookings)

\* the bookings of two units are loaded, with a positive monthly net income
C19_Witness ==
  /\ ~appLoading
  /\ Len(bookings) >= 2
  /\ PositionsOf("robins-roost") # {}
  /\ PositionsOf("stadium-district") # {}
  /\ Gt(totalIncome(bookings), Num(0))

\* the fields of a booking record that only an MTR booking carries
MtrOnlyFields ==
  {"baseMonthlyRent", "securityDeposit", "damageProtection", "hasPets",
   "petCount", "petFeePerMonth", "petDeposit"}

\* C22: the record that handleSubmit passes to addBooking has nights =
\* calculated.nights for STR and calculated.days for MTR, cleaningCost = the
\* amount of cleaningCost for STR and of moveOutCleaning for MTR, carries
\* the MTR-only fields exactly when the type is MTR, and stores
\* damageProtection as 0 when protection is off and the three pet fields as
\* 0 when hasPets is off.
C22_PersistedRecord ==
  [][Len(calls') > Len(calls) =>
       LET data == calls'[Len(calls')].bookingData
       IN  /\ data.type = bookingType
           /\ data.nights = IF bookingType = "STR" THEN calculated.nights
                            ELSE calculated.days
           /\ data.cleaningCost =
                Num(CentsOf(IF bookingType = "STR" THEN formData.cleaningCost
                            ELSE formData.moveOutCleaning))
           /\ bookingType = "MTR" => MtrOnlyFields \subseteq DOMAIN data
           /\ bookingType # "MTR" => MtrOnlyFields \cap DOMAIN data = {}
           /\ bookingType = "MTR" =>
                /\ data.baseMonthlyRent =
                     Num(CentsOf(formData.baseMonthlyRent))
                /\ data.securityDeposit =
                     Num(CentsOf(formData.securityDeposit))
                /\ data.hasPets = formData.hasPets
                /\ data.damageProtection =
                     IF formData.hasDamageProtection
                     THEN Num(CentsOf(formData.damageProtection))
                     ELSE Num(0)
                /\ data.petCount =
                     IF formData.hasPets THEN Num(PetsOf(formData.petCount))
                     ELSE Num(0)
                /\ data.petFeePerMonth =
                     IF formData.hasPets
                     THEN Num(CentsOf(formData.petFeePerMonth))
                     ELSE Num(0)
                /\ data.petDeposit =
                     IF formData.hasPets
                     THEN Num(CentsOf(formData.petDeposit))
                     ELSE Num(0)]_vars

\* an MTR booking was submitted with protection off while the form still
\* held an amount for it, and it was saved with damageProtection 0
C22_Witness ==
  /\ mounted /\ loading /\ bookingType = "MTR"
  /\ ~formData.hasDamageProtection /\ formData.damageProtection = T80
  /\ formData.hasPets
  /\ Len(calls) = 1
  /\ calls[1].bookingData.damageProtection = Num(0)
  /\ calls[1].bookingData.petDeposit = Num(25000)
  /\ calls[1].bookingData.nights = Num(30)
  /\ calls[1].bookingData.cleaningCost = Num(35000)

\* C25: a submission sets loading before it calls addBooking, the settling
\* of the call sets it back to false, and at most one addBooking call of
\* the form awaits its answer at any time.
C25_OneCallInFlight ==
  /\ Len(inflight) <= 1
  /\ (mounted /\ loading) => inflight # <<>>

\* C24: the breakdown modal is open only when at least one booking is
\* loaded: showBreakdown implies that bookings is not empty.
C24_BreakdownHasBookings == showBreakdown => bookings # <<>>

LoadCall ==
  pending[CHOOSE i \in 1..Len(pending) :
            pending[i].op = "addBooking" /\ pending[i].live]

\* the demo load reports its success in this step
LoadSucceeds ==
  /\ adding = Len(mockBookings)
  /\ adding' = 0
  /\ store' # store

\* C21: when a Load Mock Data run succeeds, it has called addBooking six
\* times for the account, once for each mock booking in list order, every
\* one of the calls has added its booking, the message reports 6 bookings,
\* and the netIncome values of the six bookings add up to a total that
\* formatCurrency shows as $3,925.
C21_MockDataTotal ==
  [][LoadSucceeds =>
       LET uid == LoadCall.userId
           n == Len(calls)
           made == SubSeq(calls, n - 5, n)
           docs == store'[uid]
       IN  /\ n >= 6
           /\ \A k \in 1..6 :
                made[k] = [userId |-> uid, bookingData |-> mockBookings[k]]
           /\ Len(docs) = Len(store[uid]) + 1
           /\ DataOf(docs[Len(docs)]) = mockBookings[6]
           /\ message' = <<"Demo data loaded! ", "6",
                           " bookings added. Refreshing...">>
           /\ formatCurrency(totalIncome([k \in 1..6 |->
                                            made[k].bookingData]))
                = <<"$", "3", ",", "9", "2", "5">>]_vars

\* the guest's account holds the six mock bookings and nothing else, the
\* card reports the load, and their total shows as $3,925
C21_Witness ==
  /\ Len(store[GuestUserId]) = 6
  /\ \A k \in 1..6 : DataOf(store[GuestUserId][k]) = mockBookings[k]
  /\ message = <<"Demo data loaded! ", "6", " bookings added. Refreshing...">>
  /\ timer
  /\ totalIncome(store[GuestUserId]) = Rat(392450, 1)
  /\ formatCurrency(totalIncome(store[GuestUserId]))
       = <<"$", "3", ",", "9", "2", "5">>

\* C27: a demo load adds the mock bookings one at a time in list order:
\* every step of a running load either adds the booking it awaits and calls
\* addBooking for the next one of the list, or, after the last one, reports
\* the success and schedules the reload, or is a rejection, or is a page
\* load that ends it.  When the k-th call is rejected, the store is left as
\* it is (the k-1 bookings added before stay), no further addBooking call
\* is made, the error is shown, loading is false and no reload is
\* scheduled.
C27_MockLoadStops ==
  [][(adding > 0 /\ adding' # adding) =>
       LET uid == LoadCall.userId
           docs == store'[uid]
       IN  \/ /\ adding' = adding + 1
              /\ LoadCall.arg = mockBookings[adding]
              /\ Len(docs) = Len(store[uid]) + 1
              /\ SubSeq(docs, 1, Len(store[uid])) = store[uid]
              /\ DataOf(docs[Len(docs)]) = mockBookings[adding]
              /\ calls' = Append(calls,
                                 [userId |-> uid,
                                  bookingData |-> mockBookings[adding + 1]])
              /\ testLoading' /\ timer' = timer
           \/ /\ LoadSucceeds
              /\ DataOf(docs[Len(docs)]) = mockBookings[adding]
              /\ calls' = calls
              /\ ~testLoading' /\ timer'
           \/ /\ adding' = 0
              /\ store' = store
              /\ calls' = calls
              /\ \E errMessage \in StoreErrors :
                   message' = <<"Error: ", errMessage>>
              /\ ~testLoading'
              /\ timer' = timer
              /\ \A i \in 1..Len(pending') :
                   pending'[i].op = "addBooking" => ~pending'[i].live
           \/ /\ adding' = 0
              /\ appLoading' /\ ~testLoading' /\ ~timer'
              /\ store' = store
              /\ calls' = calls]_vars

\* the fourth call of a load was rejected: the first three mock bookings
\* are stored, four calls were made, the error is shown and no reload is due
C27_Witness ==
  /\ adding = 0
  /\ message = <<"Error: ", "permission-denied">>
  /\ ~testLoading /\ ~timer
  /\ Len(store[GuestUserId]) = 3
  /\ \A k \in 1..3 : DataOf(store[GuestUserId][k]) = mockBookings[k]
  /\ Len(calls) = 4
  /\ calls[4].bookingData = mockBookings[4]
  /\ pending = <<>>

\* the text of an amount of money as it is typed into the form
AmountText(a) ==
  LET cents == a.num % Cents
  IN  NatText(a.num \div Cents)
        \o (IF cents = 0 THEN <<>>
            ELSE <<".">> \o PadStart2(NatText(cents)))

\* the form that holds the k-th mock booking's own type, dates and amounts
MockForm(k) ==
  LET b == mockBookings[k]
      common == [unitId |-> b.unitId,
                 platform |-> b.platform,
                 checkIn |-> mockDates[k].checkIn,
                 checkOut |-> mockDates[k].checkOut,
                 platformFee |-> AmountText(b.platformFee)]
  IN  IF b.type = "STR"
      THEN [grossPayout |-> AmountText(b.grossPayout),
            cleaningCost |-> AmountText(b.cleaningCost)]
             @@ common @@ InitialFormData(b.unitId)
      ELSE [baseMonthlyRent |-> AmountText(b.baseMonthlyRent),
            moveOutCleaning |-> AmountText(b.cleaningCost),
            securityDeposit |-> AmountText(b.securityDeposit),
            damageProtection |-> AmountText(b.damageProtection),
            hasDamageProtection |-> b.damageProtection # Num(0),
            hasPets |-> b.hasPets,
            petCount |-> NatText(b.petCount.num),
            petFeePerMonth |-> AmountText(b.petFeePerMonth),
            petDeposit |-> AmountText(b.petDeposit)]
             @@ common @@ InitialFormData(b.unitId)

\* C28: every mock booking that a demo load has stored is consistent with
\* the calculator: its nights is the day difference of its dates, and its
\* netIncome is what calculateBooking gives for its own type, dates, fee,
\* cleaning, rent, damage protection and pet fields.
C28_MockMatchesCalculator ==
  \A a \in Accounts : \A n \in 1..Len(store[a]) : \A k \in 1..6 :
    DataOf(store[a][n]) = mockBookings[k] =>
      LET calc == calculateBooking(MockForm(k), mockBookings[k].type)
      IN  /\ mockBookings[k].nights = calc.days
          /\ mockBookings[k].netIncome = calc.netIncome

\* the number of deleteAllBookings calls among the calls
Deletes(calling) ==
  Len(SelectSeq(calling, LAMBDA c : c.op = "deleteAllBookings"))

\* the test card calls addBooking or deleteAllBookings in this step
WriteIssued == calls' # calls \/ Deletes(pending') > Deletes(pending)

C29_FixedAccount ==
  [][/\ \A i \in 1..Len(pending') :
          pending'[i].op = "getBookingsByMonth"
            => pending'[i].userId = FormUserId
     /\ calls' # calls =>
          LET c == calls'[Len(calls')]
          IN  IF inflight' # inflight
              THEN c.userId = FormUserId
              ELSE user # "" /\ c.userId = user
     /\ user' # user =>
          UNCHANGED <<bookings, pending, inflight, calls, store, appLoading,
                      appError, currentMonth>>
     /\ bookings' # bookings =>
          /\ \A n \in 1..Len(bookings') :
               /\ \E k \in 1..Len(store[FormUserId]) :
                    store[FormUserId][k] = bookings'[n]
               /\ \A a \in Accounts \ {FormUserId} :
                    bookings'[n].id \notin IdsOf(store[a])
          /\ bookings' # <<>> =>
               \A k \in 1..Len(store[FormUserId]) :
                 store[FormUserId][k].month = currentMonth
                   => \E n \in 1..Len(bookings') :
                        bookings'[n] = store[FormUserId][k]]_vars

\* a guest is signed in and has added the sample booking of March to the
\* guest's account, a booking was saved with the form, and the dashboard,
\* loaded again for March, shows bookings of the fixed account and not the
\* guest's
C29_Witness ==
  /\ user = GuestUserId
  /\ Len(store[GuestUserId]) = 1
  /\ DataOf(store[GuestUserId][1]) = testBooking
  /\ currentMonth = Month202603
  /\ ~appLoading /\ appError = ""
  /\ bookings # <<>>
  /\ \E n \in 1..Len(bookings) : bookings[n].id > store[GuestUserId][1].id
  /\ \A n \in 1..Len(bookings) : bookings[n].id # store[GuestUserId][1].id

====
